---- MODULE Spec2Model ----
(***************************************************************************)
(* TT-BBS: the session service, the command dispatcher (Shell), the app    *)
(* registry, the auth endpoints and the storage facade of remote apps.     *)
(* Strings are TLA+ strings; the JavaScript string functions the code uses *)
(* (trim, toUpperCase, parseInt, includes, startsWith, split, substring)   *)
(* are defined character by character below.                               *)
(***************************************************************************)
EXTENDS Integers, Sequences, FiniteSets, TLC

(***************************************************************************)
(* JavaScript string primitives                                            *)
(***************************************************************************)
CharAt(s, i) == SubSeq(s, i, i)

LowerLetters == "abcdefghijklmnopqrstuvwxyz"
UpperLetters == "ABCDEFGHIJKLMNOPQRSTUVWXYZ"
DecDigits == "0123456789"
HexDigits == "0123456789ABCDEF"

\* String.prototype.indexOf for a one-character needle, 1-based; 0 = absent
RECURSIVE IndexFrom(_, _, _)
IndexFrom(s, ch, i) ==
    IF i > Len(s) THEN 0
    ELSE IF CharAt(s, i) = ch THEN i
    ELSE IndexFrom(s, ch, i + 1)

IndexOfChar(s, ch) == IndexFrom(s, ch, 1)

\* the upper-case letter of each lower-case letter
UpperMap ==
    [ch \in {CharAt(LowerLetters, i) : i \in 1..Len(LowerLetters)} |->
        CharAt(UpperLetters, IndexOfChar(LowerLetters, ch))]

UpperChar(ch) == IF ch \in DOMAIN UpperMap THEN UpperMap[ch] ELSE ch

\* a normalisation that keeps the case of the command
KeepCase(s) == s

\* String.prototype.toUpperCase
RECURSIVE ToUpperCase(_)
ToUpperCase(s) ==
    IF Len(s) = 0 THEN ""
    ELSE UpperChar(CharAt(s, 1)) \o ToUpperCase(Tail(s))

IsSpace(ch) == ch = " "

RECURSIVE TrimStart(_)
TrimStart(s) ==
    IF Len(s) > 0 /\ IsSpace(CharAt(s, 1)) THEN TrimStart(Tail(s)) ELSE s

RECURSIVE TrimEnd(_)
TrimEnd(s) ==
    IF Len(s) > 0 /\ IsSpace(CharAt(s, Len(s)))
    THEN TrimEnd(SubSeq(s, 1, Len(s) - 1))
    ELSE s

\* a normalisation that keeps the surrounding white space
KeepSpaces(s) == s

\* String.prototype.trim
Trim(s) == TrimEnd(TrimStart(s))

\* String.prototype.startsWith
StartsWith(s, p) == Len(s) >= Len(p) /\ SubSeq(s, 1, Len(p)) = p

\* String.prototype.includes
Includes(s, sub) ==
    \E i \in 1..(Len(s) + 1) :
        i + Len(sub) - 1 <= Len(s) /\ SubSeq(s, i, i + Len(sub) - 1) = sub

\* String.prototype.substring(n), n a 0-based start index
Substring(s, n) == IF n >= Len(s) THEN "" ELSE SubSeq(s, n + 1, Len(s))

\* String.prototype.split(':') : the sequence of ':'-separated pieces
RECURSIVE SplitFrom(_, _, _)
SplitFrom(s, sep, acc) ==
    IF Len(s) = 0 THEN <<acc>>
    ELSE IF CharAt(s, 1) = sep THEN <<acc>> \o SplitFrom(Tail(s), sep, "")
    ELSE SplitFrom(Tail(s), sep, acc \o CharAt(s, 1))

Split(s, sep) == SplitFrom(s, sep, "")

\* the value of the longest prefix of s made of digits of the given radix
RECURSIVE DigitsValue(_, _, _, _)
DigitsValue(s, radix, acc, seen) ==
    LET d == IF Len(s) = 0 THEN 0 ELSE IndexOfChar(HexDigits, CharAt(s, 1))
    IN  IF d = 0 \/ d > radix THEN [nan |-> ~seen, val |-> acc]
        ELSE DigitsValue(Tail(s), radix, acc * radix + (d - 1), TRUE)

\* parseInt(string) with no radix argument: leading white space and a sign
\* are skipped, "0X" selects radix 16, the longest digit prefix is read and
\* whatever follows it is ignored; NaN when there is no digit.
ParseInt(str) ==
    LET signed(neg, r) == [nan |-> r.nan, val |-> IF neg THEN 0 - r.val ELSE r.val]
        digits(body) ==
            IF StartsWith(body, "0X") \/ StartsWith(body, "0x")
            THEN DigitsValue(ToUpperCase(Substring(body, 2)), 16, 0, FALSE)
            ELSE DigitsValue(body, 10, 0, FALSE)
        number(s) ==
            signed(StartsWith(s, "-"),
                   digits(IF StartsWith(s, "-") \/ StartsWith(s, "+") THEN Tail(s) ELSE s))
    IN  number(TrimStart(str))

\* `${n}` for a small non-negative integer
RECURSIVE NumToString(_)
NumToString(n) ==
    IF n < 10 THEN CharAt(DecDigits, n + 1)
    ELSE NumToString(n \div 10) \o CharAt(DecDigits, (n % 10) + 1)

(***************************************************************************)
(* Values                                                                  *)
(***************************************************************************)
\* JavaScript undefined (an absent optional string field) and null
Undefined == "<undefined>"
Null == "<null>"

\* Limit history to 100 commands
HistoryLimit == 100

\* the empty object {} and the object spread {...a, ...b}
EmptyData == <<>>
Spread(a, b) ==
    [f \in (DOMAIN a) \cup (DOMAIN b) |-> IF f \in DOMAIN b THEN b[f] ELSE a[f]]

\* JavaScript falsiness of an optional string: undefined, null or ""
Falsy(v) == v = Undefined \/ v = Null \/ v = ""

(***************************************************************************)
(* The session service over the sessions collection of the Store.          *)
(* ss is the collection: a function from the keys of the stored sessions   *)
(* to their documents.  Every operation returns the collection after the   *)
(* call and the value the call returns.  storeFault says which Store call  *)
(* of the operation throws: "none", "find" (the lookup), "update" (the     *)
(* direct update; the save() fallback works), "updateSave" (both) and,     *)
(* for updateSession, "updateSaveLast" (the last-resort write as well).    *)
(***************************************************************************)
NewSessionDoc ==
    [currentArea |-> "main", commandHistory |-> <<>>,
     userId |-> Undefined, username |-> Undefined, data |-> EmptyData]

\* the BbsSession object the service hands out for a stored document
SessionObject(k, doc) ==
    [sessionId |-> k,
     userId |-> doc.userId,
     username |-> doc.username,
     currentArea |-> IF Falsy(doc.currentArea) THEN "main" ELSE doc.currentArea,
     commandHistory |-> doc.commandHistory,
     data |-> doc.data]

NoSession == [sessionId |-> Null, userId |-> Undefined, username |-> Undefined,
              currentArea |-> "main", commandHistory |-> <<>>, data |-> EmptyData]

\* a createSession that stores a new session over the one it finds
createSessionAnew(ss, k, storeFault) ==
    [ss |-> [j \in (DOMAIN ss) \cup {k} |-> IF j = k THEN NewSessionDoc ELSE ss[j]],
     ret |-> SessionObject(k, NewSessionDoc)]

createSession(ss, k, storeFault) ==
    IF storeFault # "none"
    THEN [ss |-> ss, ret |-> SessionObject(k, NewSessionDoc)]
    ELSE IF k \in DOMAIN ss
    THEN [ss |-> ss, ret |-> SessionObject(k, ss[k])]
    ELSE [ss |-> [j \in (DOMAIN ss) \cup {k} |-> IF j = k THEN NewSessionDoc ELSE ss[j]],
          ret |-> SessionObject(k, NewSessionDoc)]

getSession(ss, k, storeFault) ==
    IF storeFault # "none" \/ k \notin DOMAIN ss
    THEN [ss |-> ss, ret |-> NoSession]
    ELSE [ss |-> ss, ret |-> SessionObject(k, ss[k])]

\* updates: currentArea, userId, username are strings or Undefined; data and
\* commandHistory are <<>> (not given) or <<value>>
NoUpdates ==
    [currentArea |-> Undefined, userId |-> Undefined, username |-> Undefined,
     data |-> <<>>, commandHistory |-> <<>>]

ApplyUpdates(doc, updates) ==
    [currentArea |-> IF updates.currentArea # Undefined
                     THEN updates.currentArea ELSE doc.currentArea,
     data |-> IF updates.data # <<>>
              THEN Spread(doc.data, updates.data[1]) ELSE doc.data,
     userId |-> IF updates.userId # Undefined THEN updates.userId ELSE doc.userId,
     username |-> IF updates.username # Undefined
                  THEN updates.username ELSE doc.username,
     commandHistory |-> IF updates.commandHistory # <<>>
                        THEN updates.commandHistory[1] ELSE doc.commandHistory]

updateSession(ss, k, updates, storeFault) ==
    IF storeFault = "find" \/ k \notin DOMAIN ss
    THEN [ss |-> ss, ret |-> NoSession]
    ELSE LET write(session) ==
                 CASE storeFault \in {"none", "update"} ->
                        [ss |-> [ss EXCEPT ![k] = session],
                         ret |-> SessionObject(k, session)]
                   [] storeFault = "updateSave" ->
                        [ss |-> [ss EXCEPT ![k].currentArea = session.currentArea,
                                           ![k].commandHistory = session.commandHistory],
                         ret |-> SessionObject(k, session)]
                   [] OTHER -> [ss |-> ss, ret |-> NoSession]
         IN  write(ApplyUpdates(ss[k], updates))

\* a history that stops growing at the limit and drops the newest command
PushHistoryKeepOldest(history, command) ==
    IF Len(history) >= HistoryLimit THEN history ELSE Append(history, command)

\* push, then shift once when the length exceeds the limit
PushHistory(history, command) ==
    LET pushed == Append(history, command)
    IN  IF Len(pushed) > HistoryLimit THEN Tail(pushed) ELSE pushed

addToHistory(ss, k, command, storeFault) ==
    IF storeFault = "find" \/ k \notin DOMAIN ss
    THEN [ss |-> ss, ret |-> FALSE]
    ELSE IF storeFault \in {"none", "update"}
    THEN [ss |-> [ss EXCEPT ![k].commandHistory = PushHistory(@, command)],
          ret |-> TRUE]
    ELSE [ss |-> ss, ret |-> TRUE]

\* an update whose filter matches every stored session
setCurrentAreaOfAll(ss, k, area, storeFault) ==
    IF storeFault = "find" \/ k \notin DOMAIN ss
    THEN [ss |-> ss, ret |-> FALSE]
    ELSE [ss |-> [j \in DOMAIN ss |-> [ss[j] EXCEPT !.currentArea = area]], ret |-> TRUE]

setCurrentArea(ss, k, area, storeFault) ==
    IF storeFault = "find" \/ k \notin DOMAIN ss
    THEN [ss |-> ss, ret |-> FALSE]
    ELSE IF storeFault \in {"none", "update"}
    THEN [ss |-> [ss EXCEPT ![k].currentArea = area], ret |-> TRUE]
    ELSE [ss |-> ss, ret |-> TRUE]

deleteSession(ss, k, storeFault) ==
    IF storeFault # "none" \/ k \notin DOMAIN ss
    THEN [ss |-> ss, ret |-> FALSE]
    ELSE [ss |-> [j \in (DOMAIN ss) \ {k} |-> ss[j]], ret |-> TRUE]

(***************************************************************************)
(* The app registry (appLoader) and the GitHub loader.                     *)
(* The registry is a JavaScript object: a sequence of apps in insertion    *)
(* order.  An app is [id, name, source]; source is Undefined for the       *)
(* built-in apps and the install URL for an app loaded from GitHub.        *)
(***************************************************************************)
MessageBoardsApp == [id |-> "messageBoards", name |-> "Message Boards", source |-> Undefined]
HangmanApp == [id |-> "hangman", name |-> "Hangman", source |-> Undefined]
GitHubAdminApp == [id |-> "github_admin", name |-> "GitHub App Manager", source |-> Undefined]

RECURSIVE PositionOf(_, _, _)
PositionOf(reg, id, i) ==
    IF i > Len(reg) THEN 0
    ELSE IF reg[i].id = id THEN i
    ELSE PositionOf(reg, id, i + 1)

\* apps[appId] is defined
HasApp(reg, id) == PositionOf(reg, id, 1) # 0
AppOf(reg, id) == reg[PositionOf(reg, id, 1)]

\* appRegistry[app.id] = app : an existing key keeps its place
RegistryPut(reg, app) ==
    IF HasApp(reg, app.id)
    THEN [reg EXCEPT ![PositionOf(reg, app.id, 1)] = app]
    ELSE Append(reg, app)

\* a sequence without the elements that fail the test
RECURSIVE RemoveSource(_, _)
RemoveSource(reg, url) ==
    IF Len(reg) = 0 THEN <<>>
    ELSE IF Head(reg).source = url THEN RemoveSource(Tail(reg), url)
    ELSE <<Head(reg)>> \o RemoveSource(Tail(reg), url)

RECURSIVE RemoveString(_, _)
RemoveString(seq, str) ==
    IF Len(seq) = 0 THEN <<>>
    ELSE IF Head(seq) = str THEN Tail(seq)
    ELSE <<Head(seq)>> \o RemoveString(Tail(seq), str)

SeqContains(seq, v) == \E i \in 1..Len(seq) : seq[i] = v

\* loadBuiltInAppsDirect: the registry after the module is loaded
loadInstalledApps == <<MessageBoardsApp, HangmanApp, GitHubAdminApp>>

RECURSIVE NonEmptyParts(_)
NonEmptyParts(parts) ==
    IF Len(parts) = 0 THEN <<>>
    ELSE IF Head(parts) = "" THEN NonEmptyParts(Tail(parts))
    ELSE <<Head(parts)>> \o NonEmptyParts(Tail(parts))

RECURSIVE StripTrailingSlashes(_)
StripTrailingSlashes(url) ==
    IF Len(url) > 0 /\ CharAt(url, Len(url)) = "/"
    THEN StripTrailingSlashes(SubSeq(url, 1, Len(url) - 1))
    ELSE url

RECURSIVE Join(_, _)
Join(parts, sep) ==
    IF Len(parts) = 0 THEN ""
    ELSE IF Len(parts) = 1 THEN parts[1]
    ELSE parts[1] \o sep \o Join(Tail(parts), sep)

NoRepo == [ok |-> FALSE, owner |-> "", repo |-> "", branch |-> "", path |-> ""]

\* parseGithubUrl: new URL(url) accepts "<scheme>://<host>/<path>"
parseGithubUrl(rawUrl) ==
    LET repoOf(pathParts) ==
            IF Len(pathParts) < 2 THEN NoRepo
            ELSE IF Len(pathParts) > 3 /\ pathParts[3] = "tree"
            THEN [ok |-> TRUE, owner |-> pathParts[1], repo |-> pathParts[2],
                  branch |-> pathParts[4],
                  path |-> IF Len(pathParts) > 4
                           THEN Join(SubSeq(pathParts, 5, Len(pathParts)), "/") ELSE ""]
            ELSE [ok |-> TRUE, owner |-> pathParts[1], repo |-> pathParts[2],
                  branch |-> "main", path |-> ""]
        urlOf(parts) ==
            IF /\ Len(parts) >= 3
               /\ Len(parts[1]) >= 2
               /\ CharAt(parts[1], Len(parts[1])) = ":"
               /\ parts[2] = ""
               /\ parts[3] # ""
            THEN repoOf(NonEmptyParts(SubSeq(parts, 4, Len(parts))))
            ELSE NoRepo
        parse(url) ==
            IF ~Includes(url, "github.com") THEN NoRepo ELSE urlOf(Split(url, "/"))
    IN  parse(StripTrailingSlashes(rawUrl))

\* the synthesized id: github_<owner>_<repo>[_<path with / replaced by _>]
GithubAppId(repoInfo) ==
    "github_" \o repoInfo.owner \o "_" \o repoInfo.repo \o
    (IF repoInfo.path # ""
     THEN "_" \o Join(Split(repoInfo.path, "/"), "_") ELSE "")

NoApp == [id |-> Null, name |-> "", source |-> Undefined]

\* env.load is what the repository holds when it is fetched: code that
\* loads ("ok"), a later version of it that loads ("updated"), or code that
\* fails the fetch, the analysis, the execution or the validation ("fail")
Loads(env) == env.load \in {"ok", "updated"}

\* the name of the app the fetched code exports
FetchedName(env) == IF env.load = "updated" THEN "Remote App 2" ELSE "Remote App"

\* a loader that fills its cache and never reads it
loadAppFromGithubNoCache(w, githubUrl, env) ==
    LET load(appId, secureApp) ==
            IF ~Loads(env) THEN [w |-> w, ret |-> NoApp]
            ELSE [w |-> [w EXCEPT !.githubApps =
                            [a \in (DOMAIN w.githubApps) \cup {appId} |->
                                IF a = appId THEN secureApp ELSE w.githubApps[a]]],
                  ret |-> secureApp]
        from(repoInfo) ==
            IF ~repoInfo.ok THEN [w |-> w, ret |-> NoApp]
            ELSE load(GithubAppId(repoInfo),
                      [id |-> GithubAppId(repoInfo), name |-> FetchedName(env),
                       source |-> githubUrl])
    IN  from(parseGithubUrl(githubUrl))

\* The world a command acts on: the sessions collection, the registry, the
\* tracked GitHub URLs and the loader's cache (app id -> loaded app).
\* loadAppFromGithub: env.cacheFresh says whether a cached entry is less
\* than an hour old, env.load what fetching, analysing, executing and
\* validating the code of the repository yields.
loadAppFromGithub(w, githubUrl, env) ==
    LET load(appId, secureApp) ==
            IF appId \in DOMAIN w.githubApps /\ env.cacheFresh
            THEN [w |-> w, ret |-> w.githubApps[appId]]
            ELSE IF ~Loads(env) THEN [w |-> w, ret |-> NoApp]
            ELSE [w |-> [w EXCEPT !.githubApps =
                            [a \in (DOMAIN w.githubApps) \cup {appId} |->
                                IF a = appId THEN secureApp ELSE w.githubApps[a]]],
                  ret |-> secureApp]
        named(appId) ==
            load(appId, [id |-> appId, name |-> FetchedName(env), source |-> githubUrl])
        from(repoInfo) ==
            IF ~repoInfo.ok THEN [w |-> w, ret |-> NoApp]
            ELSE named(GithubAppId(repoInfo))
    IN  from(parseGithubUrl(githubUrl))

RECURSIVE FirstWithSource(_, _)
FirstWithSource(reg, url) ==
    IF Len(reg) = 0 THEN NoApp
    ELSE IF Head(reg).source = url THEN Head(reg)
    ELSE FirstWithSource(Tail(reg), url)

\* an install that tracks the URL before the app is loaded
installGithubAppTrackFirst(w, githubUrl, env) ==
    [w |-> [loadAppFromGithub(w, githubUrl, env).w EXCEPT
               !.installedGithubApps = Append(@, githubUrl)],
     ret |-> loadAppFromGithub(w, githubUrl, env).ret]

installGithubApp(w, githubUrl, env) ==
    LET register(loaded) ==
            IF loaded.ret.id = Null THEN [w |-> loaded.w, ret |-> NoApp]
            ELSE [w |-> [loaded.w EXCEPT
                           !.appRegistry = RegistryPut(@, loaded.ret),
                           !.installedGithubApps =
                               IF SeqContains(@, githubUrl) THEN @
                               ELSE Append(@, githubUrl)],
                  ret |-> loaded.ret]
        install(existingApp) ==
            IF SeqContains(w.installedGithubApps, githubUrl) /\ existingApp.id # Null
            THEN [w |-> w, ret |-> existingApp]
            ELSE register(loadAppFromGithub(w, githubUrl, env))
    IN  install(FirstWithSource(w.appRegistry, githubUrl))

uninstallGithubApp(w, githubUrl) ==
    [w |-> [w EXCEPT !.appRegistry = RemoveSource(@, githubUrl),
                     !.installedGithubApps = RemoveString(@, githubUrl)],
     ret |-> \/ FirstWithSource(w.appRegistry, githubUrl).id # Null
             \/ SeqContains(w.installedGithubApps, githubUrl)]

(***************************************************************************)
(* The apps.  handleCommand returns the world after the call and a result  *)
(* [screen, response, refresh]; screen is a string or Null.                *)
(* Responses are the texts of the code with the decoration left out.       *)
(***************************************************************************)
AppResult(screen, response, refresh) ==
    [screen |-> screen, response |-> response, refresh |-> refresh]

\* const messageBoards: Board[] and the number of messages of each board
BoardIds == <<"general", "tech", "retro">>
MessageCount(boardId) == IF SeqContains(BoardIds, boardId) THEN 1 ELSE 0

InRange(parsed, length) ==
    ~parsed.nan /\ parsed.val - 1 >= 0 /\ parsed.val - 1 < length

MessageBoardsHandleCommand(screenId, command) ==
    LET unknown == AppResult(IF Falsy(screenId) THEN "home" ELSE screenId,
                             "Invalid command: " \o command, FALSE)
        home(cmd, index) ==
            IF cmd = "B" \/ cmd = "BACK"
            THEN AppResult(Null, "Returning to main menu...", TRUE)
            ELSE IF InRange(index, Len(BoardIds))
            THEN AppResult("board:" \o BoardIds[index.val], "BOARD VIEW", TRUE)
            ELSE unknown
        board(cmd, index, boardId) ==
            IF cmd = "B" \/ cmd = "BACK"
            THEN AppResult("home", "MESSAGE BOARDS", TRUE)
            ELSE IF cmd = "N" \/ cmd = "NEW"
            THEN AppResult(screenId, "New message posting not implemented yet.", FALSE)
            ELSE IF InRange(index, MessageCount(boardId))
            THEN AppResult("message:" \o boardId \o ":" \o NumToString(index.val),
                           "MESSAGE VIEW", TRUE)
            ELSE unknown
        message(cmd, path, boardId) ==
            IF Len(path) < 3 THEN AppResult("home", "MESSAGE BOARDS", TRUE)
            ELSE IF cmd = "B" \/ cmd = "BACK"
            THEN AppResult("board:" \o boardId, "BOARD VIEW", TRUE)
            ELSE IF cmd = "R" \/ cmd = "REPLY"
            THEN AppResult(screenId, "Reply feature not implemented yet.", FALSE)
            ELSE unknown
        route(cmd, path, index, boardId) ==
            CASE path[1] = "home" -> home(cmd, index)
              [] path[1] = "board" -> board(cmd, index, boardId)
              [] path[1] = "message" -> message(cmd, path, boardId)
              [] OTHER -> unknown
        onPath(cmd, path) ==
            route(cmd, path, ParseInt(cmd), IF Len(path) >= 2 THEN path[2] ELSE "undefined")
    IN  onPath(ToUpperCase(Trim(command)),
               IF Falsy(screenId) THEN <<"home">> ELSE Split(screenId, ":"))

HangmanHandleCommand(screenId, command) ==
    LET unknown == AppResult(IF Falsy(screenId) THEN "home" ELSE screenId,
                             "Invalid command: " \o command, FALSE)
        handle(cmd) ==
            IF cmd = "B" \/ cmd = "BACK"
            THEN AppResult(Null, "Returning to main menu...", TRUE)
            ELSE CASE screenId = "home" ->
                        IF cmd = "P" \/ cmd = "PLAY"
                        THEN AppResult("game", "HANGMAN GAME", TRUE) ELSE unknown
                   [] screenId = "game" ->
                        IF cmd = "N" \/ cmd = "NEW"
                        THEN AppResult("game", "HANGMAN GAME", TRUE)
                        ELSE IF Len(cmd) = 1 /\ IndexOfChar(UpperLetters, cmd) # 0
                        THEN AppResult("game", "HANGMAN GAME", TRUE)
                        ELSE unknown
                   [] OTHER -> unknown
    IN  handle(ToUpperCase(Trim(command)))

GitHubAdminHandleCommand(w, screenId, command, env) ==
    LET unknown == AppResult(IF Falsy(screenId) THEN "home" ELSE screenId,
                             "Unknown command: " \o command, FALSE)
        githubUrls == w.installedGithubApps
        home(cmd) ==
            IF cmd = "LIST" THEN AppResult("home", "INSTALLED GITHUB APPS", TRUE)
            ELSE IF cmd = "INSTALL" THEN AppResult("install", "INSTALL FROM GITHUB", TRUE)
            ELSE IF cmd = "UNINSTALL"
            THEN AppResult("uninstall", "UNINSTALL GITHUB APP", TRUE)
            ELSE unknown
        choose(index) ==
            IF InRange(index, Len(githubUrls))
            THEN AppResult("confirm-uninstall:" \o githubUrls[index.val],
                           "Are you sure you want to uninstall", TRUE)
            ELSE unknown
        confirmed(uninstalled) ==
            [w |-> uninstalled.w,
             res |-> AppResult("home",
                        IF uninstalled.ret THEN "uninstalled successfully"
                        ELSE "Failed to uninstall", TRUE)]
        handle(cmd) ==
            IF cmd = "B" \/ cmd = "BACK"
            THEN [w |-> w, res |-> AppResult(Null, "Returning to main menu...", TRUE)]
            ELSE CASE screenId = "home" -> [w |-> w, res |-> home(cmd)]
                   [] screenId = "install" ->
                        IF StartsWith(cmd, "HTTP")
                        THEN [w |-> installGithubApp(w, command, env).w,
                              res |-> AppResult("install",
                                         "Installation of app from " \o command
                                            \o " has been started.", TRUE)]
                        ELSE [w |-> w, res |-> unknown]
                   [] screenId = "uninstall" -> [w |-> w, res |-> choose(ParseInt(cmd))]
                   [] OTHER ->
                        IF StartsWith(screenId, "confirm-uninstall:") /\ cmd = "YES"
                        THEN confirmed(uninstallGithubApp(w,
                                 Substring(screenId, Len("confirm-uninstall:"))))
                        ELSE IF StartsWith(screenId, "confirm-uninstall:")
                        THEN [w |-> w,
                              res |-> AppResult("uninstall", "Uninstall cancelled.", TRUE)]
                        ELSE [w |-> w, res |-> unknown]
    IN  handle(ToUpperCase(Trim(command)))

RECURSIVE KeepWordChars(_)
KeepWordChars(s) ==
    IF Len(s) = 0 THEN ""
    ELSE (IF \/ IndexOfChar(LowerLetters, CharAt(s, 1)) # 0
             \/ IndexOfChar(UpperLetters, CharAt(s, 1)) # 0
             \/ IndexOfChar(DecDigits, CharAt(s, 1)) # 0
             \/ CharAt(s, 1) = "_" \/ CharAt(s, 1) = "-"
          THEN CharAt(s, 1) ELSE "") \o KeepWordChars(Tail(s))

\* screenId?.replace(/[^\w-]/g, '') || null
SanitizeScreenId(screenId) ==
    IF screenId = Null \/ KeepWordChars(screenId) = "" THEN Null
    ELSE KeepWordChars(screenId)

\* secureApp.handleCommand, the wrapper of an app loaded from GitHub.
\* env.limited is the outcome of the rate-limit check; env.appOut is what
\* the sandboxed code does with the sanitized input: "throw", "invalid"
\* (no result object), or the screen it returns.
SecureHandleCommand(screenId, command, env) ==
    IF env.limited
    THEN AppResult(screenId, "Rate limit exceeded. Please try again later.", FALSE)
    ELSE IF env.appOut = "throw"
    THEN AppResult(screenId, "Error executing command. Please report this issue.", FALSE)
    ELSE IF env.appOut = "invalid"
    THEN AppResult(screenId, "Error: Invalid command result", TRUE)
    ELSE AppResult(IF env.appOut = "same" THEN SanitizeScreenId(screenId) ELSE env.appOut,
                   "REMOTE RESPONSE", TRUE)

\* app.handleCommand(currentScreen, command, session) by the app's id
AppHandleCommand(w, app, screenId, command, env) ==
    CASE app.id = "messageBoards" ->
           [w |-> w, res |-> MessageBoardsHandleCommand(screenId, command)]
      [] app.id = "hangman" ->
           [w |-> w, res |-> HangmanHandleCommand(screenId, command)]
      [] app.id = "github_admin" -> GitHubAdminHandleCommand(w, screenId, command, env)
      [] OTHER -> [w |-> w, res |-> SecureHandleCommand(screenId, command, env)]

\* app.getWelcomeScreen()
WelcomeScreen(app) == "WELCOME TO " \o app.name \o " (" \o app.id \o ")"

(***************************************************************************)
(* The Shell: command/route.ts.  A CommandResult is                        *)
(* [screen, area, response, refresh].                                      *)
(***************************************************************************)
CommandResult(screen, area, response, refresh) ==
    [screen |-> screen, area |-> area, response |-> response, refresh |-> refresh]

\* parseAreaString: [appId, screenId], [Null, Null] for an area without ':'
parseAreaString(area) ==
    IF Falsy(area) THEN <<Null, Null>>
    ELSE IF ~Includes(area, ":") THEN <<Null, Null>>
    ELSE <<Split(area, ":")[1], Split(area, ":")[2]>>

RECURSIVE MenuLines(_, _)
MenuLines(apps, index) ==
    IF index > Len(apps) THEN ""
    ELSE "[" \o NumToString(index) \o "] " \o ToUpperCase(apps[index].name)
         \o (IF apps[index].source # Undefined THEN " (GitHub)" ELSE "") \o "\n"
         \o MenuLines(apps, index + 1)

generateMainMenu(apps) ==
    "MAIN MENU\n"
    \o (IF Len(apps) = 0 THEN "No apps are currently installed.\n"
        ELSE MenuLines(apps, 1))
    \o "\n[X] LOGOFF\n\nPLEASE MAKE A SELECTION:"

generateHelpText(currentArea, apps) ==
    LET help(appId) ==
            "COMMON COMMANDS:\n"
            \o (IF appId # Null /\ HasApp(apps, appId)
                THEN "HELP OF " \o appId
                ELSE IF currentArea = "main"
                THEN (IF Len(apps) = 0 THEN "No apps are currently available."
                      ELSE "1-" \o NumToString(Len(apps)) \o " - Select an app from the menu")
                ELSE "")
    IN  help(parseAreaString(currentArea)[1])

\* updateSession(session.sessionId, { currentArea: area }) on the world
MoveSession(w, sessionId, area, env) ==
    [w EXCEPT !.sessions =
        updateSession(@, sessionId, [NoUpdates EXCEPT !.currentArea = area], env.fUpd).ss]

\* handleMainMenuCommands
handleMainMenuCommands(w, cmd, session, apps, env) ==
    LET enter(app, newArea) ==
            [w |-> MoveSession(w, session.sessionId, newArea, env),
             res |-> CommandResult("home", newArea, WelcomeScreen(app), TRUE)]
        select(appIndex) ==
            IF InRange(appIndex, Len(apps))
            THEN enter(apps[appIndex.val], apps[appIndex.val].id \o ":home")
            ELSE [w |-> w,
                  res |-> CommandResult(Null, "main",
                             "Invalid selection: " \o cmd
                                \o "\nPlease select a valid option (1-"
                                \o NumToString(Len(apps)) \o ")", FALSE)]
    IN  select(ParseInt(cmd))

\* what the Shell handed to an app's handleCommand and the screen it returned
NoCall == [consulted |-> FALSE, app |-> "", screenId |-> "", command |-> "",
           returned |-> ""]

\* the main menu reply of handleAppCommand, on the world after the session moved
BackToMain(moved, call) ==
    [w |-> moved, call |-> call,
     res |-> CommandResult(Null, "main", generateMainMenu(moved.appRegistry), TRUE)]

\* handleAppCommand from "Delegate command to the app's command handler" on
DelegateToApp(w, app, appId, currentScreen, command, session, env) ==
    LET follow(v, result, newArea, call) ==
            IF result.screen # currentScreen
            THEN IF newArea = "main"
                 THEN BackToMain(MoveSession(v, session.sessionId, newArea, env), call)
                 ELSE [w |-> MoveSession(v, session.sessionId, newArea, env),
                       call |-> call,
                       res |-> CommandResult(result.screen, newArea,
                                  result.response, result.refresh)]
            ELSE [w |-> v, call |-> call,
                  res |-> CommandResult(result.screen, appId \o ":" \o currentScreen,
                             result.response, result.refresh)]
        returned(called) ==
            follow(called.w, called.res,
                   IF called.res.screen = Null THEN "main"
                   ELSE appId \o ":" \o called.res.screen,
                   [consulted |-> TRUE, app |-> appId, screenId |-> currentScreen,
                    command |-> command, returned |-> called.res.screen])
    IN  returned(AppHandleCommand(w, app, currentScreen, command, env))

\* handleAppCommand; command is what processCommand passes: the normalized cmd
handleAppCommand(w, app, appId, currentScreen, command, session, env) ==
    IF command = "B" \/ command = "BACK"
    THEN BackToMain(MoveSession(w, session.sessionId, "main", env), NoCall)
    ELSE DelegateToApp(w, app, appId, currentScreen, command, session, env)

\* updateSession(session.sessionId, { data: {...session.data, installingApp, ...} })
FlagInstalling(w, session, on, message, env) ==
    [w EXCEPT !.sessions =
        updateSession(@, session.sessionId,
            [NoUpdates EXCEPT !.data =
                <<Spread(session.data,
                    [installingApp |-> IF on THEN "true" ELSE "false",
                     installMessage |-> message])>>],
            env.fUpd).ss]

\* the admin verbs INSTALL GITHUB <url> and UNINSTALL GITHUB <url>
installCommand(w, currentArea, command, cmd, session, env) ==
    LET answer(githubUrl, installed, v) ==
            IF installed.ret.id = Null
            THEN [w |-> v,
                  res |-> CommandResult(Null, currentArea,
                             "Failed to install app from " \o githubUrl, FALSE)]
            ELSE IF currentArea = "main"
            THEN [w |-> v,
                  res |-> CommandResult(Null, "main",
                             "Successfully installed " \o installed.ret.name \o "!\n\n"
                                \o generateMainMenu(installed.w.appRegistry), TRUE)]
            ELSE [w |-> v,
                  res |-> CommandResult(Null, currentArea,
                             "Successfully installed " \o installed.ret.name \o "!", FALSE)]
        finish(githubUrl, installed) ==
            answer(githubUrl, installed,
                   FlagInstalling(installed.w, session, FALSE, Null, env))
        install(githubUrl) ==
            IF githubUrl = "" \/ ~Includes(githubUrl, "github.com")
            THEN [w |-> w,
                  res |-> CommandResult(Null, currentArea, "Invalid GitHub URL.", FALSE)]
            ELSE finish(githubUrl,
                        installGithubApp(
                            FlagInstalling(w, session, TRUE,
                                "Installing app from " \o githubUrl, env),
                            githubUrl, env))
    IN  install(Trim(Substring(command,
                    IF StartsWith(cmd, "INSTALL-GITHUB ") THEN 15 ELSE 14)))

uninstallCommand(w, currentArea, command, cmd) ==
    LET answer(githubUrl, uninstalled) ==
            IF ~uninstalled.ret
            THEN [w |-> uninstalled.w,
                  res |-> CommandResult(Null, currentArea,
                             "No app installed from " \o githubUrl, FALSE)]
            ELSE IF currentArea = "main"
            THEN [w |-> uninstalled.w,
                  res |-> CommandResult(Null, "main",
                             "Successfully uninstalled app from " \o githubUrl \o "!\n\n"
                                \o generateMainMenu(uninstalled.w.appRegistry), TRUE)]
            ELSE [w |-> uninstalled.w,
                  res |-> CommandResult(Null, currentArea,
                             "Successfully uninstalled app from " \o githubUrl \o "!",
                             FALSE)]
        uninstall(githubUrl) ==
            IF githubUrl = "" \/ ~Includes(githubUrl, "github.com")
            THEN [w |-> w,
                  res |-> CommandResult(Null, currentArea, "Invalid GitHub URL.", FALSE)]
            ELSE answer(githubUrl, uninstallGithubApp(w, githubUrl))
    IN  uninstall(Trim(Substring(command,
                      IF StartsWith(cmd, "UNINSTALL-GITHUB ") THEN 17 ELSE 16)))

RECURSIVE UrlLines(_, _)
UrlLines(urls, index) ==
    IF index > Len(urls) THEN ""
    ELSE NumToString(index) \o ". " \o urls[index] \o "\n" \o UrlLines(urls, index + 1)

LogoffText == "Logging off...\nThank you for visiting the BBS!\nPress any key to reconnect...\n"

\* processCommand(currentArea, command, session, apps); apps is the registry
\* snapshot the endpoint took.  call: the call of an app's handleCommand.
processCommand(w, currentArea, command, session, apps, env) ==
    LET shell(r) == [w |-> r.w, call |-> NoCall, res |-> r.res]
        say(response) ==
            [w |-> w, call |-> NoCall,
             res |-> CommandResult(Null, currentArea, response, FALSE)]
        inArea(cmd, appId, appScreen) ==
            IF appId # Null /\ appId # "" /\ HasApp(apps, appId)
            THEN handleAppCommand(w, AppOf(apps, appId), appId, appScreen, cmd,
                                  session, env)
            ELSE IF currentArea = "main"
            THEN shell(handleMainMenuCommands(w, cmd, session, apps, env))
            ELSE say("Unknown command: " \o command)
        dispatch(cmd, parsed) ==
            CASE cmd = "HELP" ->
                   [w |-> w, call |-> NoCall,
                    res |-> CommandResult(IF Includes(currentArea, ":")
                                          THEN Split(currentArea, ":")[2] ELSE Null,
                                          currentArea,
                                          generateHelpText(currentArea, apps), FALSE)]
              [] cmd = "MAIN" \/ cmd = "MENU" ->
                   [w |-> MoveSession(w, session.sessionId, "main", env),
                    call |-> NoCall,
                    res |-> CommandResult(Null, "main", generateMainMenu(apps), TRUE)]
              [] cmd \in {"EXIT", "QUIT", "X", "LOGOFF"} ->
                   [w |-> w, call |-> NoCall,
                    res |-> CommandResult(Null, currentArea, LogoffText, TRUE)]
              [] cmd = "DEBUG" ->
                   say("Available apps (" \o NumToString(Len(apps)) \o ")")
              [] StartsWith(cmd, "INSTALL GITHUB ") \/ StartsWith(cmd, "INSTALL-GITHUB ") ->
                   shell(installCommand(w, currentArea, command, cmd, session, env))
              [] StartsWith(cmd, "UNINSTALL GITHUB ")
                    \/ StartsWith(cmd, "UNINSTALL-GITHUB ") ->
                   shell(uninstallCommand(w, currentArea, command, cmd))
              [] cmd = "LIST GITHUB APPS" \/ cmd = "LIST-GITHUB-APPS" ->
                   say(IF Len(w.installedGithubApps) = 0
                       THEN "No GitHub apps are currently installed."
                       ELSE "Installed GitHub Apps:\n\n"
                               \o UrlLines(w.installedGithubApps, 1))
              [] OTHER -> inArea(cmd, parsed[1], parsed[2])
    IN  dispatch(ToUpperCase(Trim(command)), parseAreaString(currentArea))

\* the commands processCommand answers itself in every area
Normalized(command) == ToUpperCase(Trim(command))

UniversalVerbs == {"HELP", "MAIN", "MENU", "EXIT", "QUIT", "X", "LOGOFF", "DEBUG",
                   "LIST GITHUB APPS", "LIST-GITHUB-APPS"}

IsUniversal(cmd) ==
    \/ cmd \in UniversalVerbs
    \/ StartsWith(cmd, "INSTALL GITHUB ") \/ StartsWith(cmd, "INSTALL-GITHUB ")
    \/ StartsWith(cmd, "UNINSTALL GITHUB ") \/ StartsWith(cmd, "UNINSTALL-GITHUB ")

\* the verbs that call the loader
IsInstallVerb(cmd) ==
    StartsWith(cmd, "INSTALL GITHUB ") \/ StartsWith(cmd, "INSTALL-GITHUB ")

(***************************************************************************)
(* POST /terminal/command.  env fixes what the environment decides during  *)
(* the request: the Store faults of getSession/createSession (fGet), of    *)
(* the updateSession calls (fUpd), of addToHistory (fHist) and of          *)
(* setCurrentArea (fArea), and the outcomes of the loader and of a remote  *)
(* app's code: the screen it returns (appOut) and the field of the session *)
(* object it was handed that it assigns to (appWrite).                     *)
(***************************************************************************)
Env(fGet, fUpd, fHist, fArea, load, cacheFresh, limited, appOut) ==
    [fGet |-> fGet, fUpd |-> fUpd, fHist |-> fHist, fArea |-> fArea,
     load |-> load, cacheFresh |-> cacheFresh, limited |-> limited, appOut |-> appOut,
     appWrite |-> "none"]

\* a reliable Store, a failing load, a remote app that stays on its screen
QuietEnv == Env("none", "none", "none", "none", "fail", FALSE, FALSE, "same")

NoSnapshot == [id |-> Null, currentArea |-> "", commandHistory |-> <<>>]

ErrorReply(status) ==
    [status |-> status, success |-> FALSE, screen |-> Null, area |-> "",
     response |-> "", refresh |-> FALSE, session |-> NoSnapshot, call |-> NoCall]

\* what the code of a remote app assigns to a field of its session argument
AppValues ==
    [currentArea |-> "intruder:home", commandHistory |-> <<"intruder">>,
     userId |-> "u0", username |-> "intruder", data |-> <<"intruder">>]

\* the area an app makes of the screen it is called with:
\* session.currentArea.split(':')[0] + ':' + screenId
ShownArea(currentArea, screenId) ==
    parseAreaString(currentArea)[1] \o ":" \o screenId

\* the session object of POST after processCommand: handleAppCommand and the
\* wrapper hand the object itself to the code of the app, so what the code
\* assigns to it is what POST reads afterwards
AppWritten(session, call, env) ==
    IF /\ call.consulted
       /\ ~HasApp(loadInstalledApps, call.app)
       /\ ~env.limited
       /\ env.appWrite \in DOMAIN AppValues
    THEN [session EXCEPT ![env.appWrite] = AppValues[env.appWrite]]
    ELSE IF /\ call.consulted
            /\ ~HasApp(loadInstalledApps, call.app)
            /\ ~env.limited
            /\ env.appWrite = "shownArea"
    THEN [session EXCEPT !.currentArea = ShownArea(session.currentArea, call.screenId)]
    ELSE session

\* POST after const currentApps = getAllApps(): currentApps is the copy of
\* the registry taken there, w the world the rest of the handler acts on
DispatchPOST(w, sessionId, command, env, currentApps) ==
    LET respond(session, result, call, v, stored) ==
            [w |-> [v EXCEPT !.sessions = stored],
             reply |-> [status |-> 200, success |-> TRUE,
                        screen |-> result.screen, area |-> result.area,
                        response |-> result.response, refresh |-> result.refresh,
                        session |-> [id |-> sessionId,
                                     currentArea |-> IF Falsy(result.area)
                                                     THEN session.currentArea
                                                     ELSE result.area,
                                     commandHistory |-> session.commandHistory],
                        call |-> call]]
        store(session, result, call, v, logged) ==
            respond(session, result, call, v,
                    IF ~Falsy(result.area) /\ result.area # session.currentArea
                    THEN setCurrentArea(logged.ss, sessionId, result.area, env.fArea).ss
                    ELSE logged.ss)
        log(session, processed) ==
            store(session, processed.res, processed.call, processed.w,
                  addToHistory(processed.w.sessions, sessionId, command, env.fHist))
        after(session, processed) ==
            log(AppWritten(session, processed.call, env), processed)
        process(made) ==
            after(made.ret,
                  processCommand([w EXCEPT !.sessions = made.ss], made.ret.currentArea,
                                 command, made.ret, currentApps, env))
        open(got) ==
            process(IF got.ret.sessionId = Null
                    THEN createSession(got.ss, sessionId, env.fGet) ELSE got)
    IN  IF Falsy(sessionId) \/ Falsy(command)
        THEN [w |-> w, reply |-> ErrorReply(400)]
        ELSE open(getSession(w.sessions, sessionId, env.fGet))

\* POST when nothing else runs between its steps
CommandPOST(w, sessionId, command, env) ==
    DispatchPOST(w, sessionId, command, env, w.appRegistry)

(***************************************************************************)
(* The auth endpoints.  users is the users collection in insertion order;  *)
(* a user is [id, username, passwordHash, displayName, email].  Every      *)
(* handler returns the sessions and users collections after the request    *)
(* and the reply [status, success, isLoggedIn, sessionId, message].        *)
(***************************************************************************)
\* bcrypt.hash(password, 10) and bcrypt.compare(password, hash)
BcryptHash(password) == "$2a$10$" \o password
BcryptCompare(password, hash) == hash = BcryptHash(password)

\* /^[a-zA-Z0-9_]{3,20}$/.test(username)
IsUsername(username) ==
    /\ Len(username) >= 3
    /\ Len(username) <= 20
    /\ \A i \in 1..Len(username) :
          \/ IndexOfChar(LowerLetters, CharAt(username, i)) # 0
          \/ IndexOfChar(UpperLetters, CharAt(username, i)) # 0
          \/ IndexOfChar(DecDigits, CharAt(username, i)) # 0
          \/ CharAt(username, i) = "_"

NoUser == [id |-> Null, username |-> "", passwordHash |-> "", displayName |-> "",
           email |-> ""]

\* User.findOne({ username }), User.findOne({ email }), User.findById(id)
RECURSIVE FindUser(_, _, _)
FindUser(users, field, value) ==
    IF Len(users) = 0 THEN NoUser
    ELSE IF Head(users)[field] = value THEN Head(users)
    ELSE FindUser(Tail(users), field, value)

\* new ObjectId(): the id of the next user document
NewUserId(users) == "u" \o NumToString(Len(users) + 1)

\* uuidv4(): the key createSession generates when it is given none
NewSessionKey(ss) == "uuid" \o NumToString(Cardinality(DOMAIN ss) + 1)

AuthReply(status, success, isLoggedIn, sessionId, message) ==
    [status |-> status, success |-> success, isLoggedIn |-> isLoggedIn,
     sessionId |-> sessionId, message |-> message]

\* "Handle session (create if not provided)" and "Update session with user
\* info" of the register and login handlers
BindSession(ss, users, sessionId, user) ==
    LET bound(key, updated) ==
            IF updated.ret.sessionId = Null
            THEN [ss |-> updated.ss, users |-> users,
                  reply |-> AuthReply(500, FALSE, FALSE, Null, "Failed to update session")]
            ELSE [ss |-> updated.ss, users |-> users,
                  reply |-> AuthReply(200, TRUE, TRUE, key, user.username)]
        bind(session) ==
            bound(session.ret.sessionId,
                  updateSession(session.ss, session.ret.sessionId,
                      [NoUpdates EXCEPT !.userId = user.id, !.username = user.username],
                      "none"))
        reuse(got) ==
            bind(IF got.ret.sessionId = Null
                 THEN createSession(got.ss, sessionId, "none") ELSE got)
    IN  IF ~Falsy(sessionId)
        THEN reuse(getSession(ss, sessionId, "none"))
        ELSE bind(createSession(ss, NewSessionKey(ss), "none"))

\* POST /auth/register
RegisterPOST(ss, users, username, password, displayName, email, sessionId) ==
    LET refuse(message) ==
            [ss |-> ss, users |-> users,
             reply |-> AuthReply(400, FALSE, FALSE, Null, message)]
        save(newUser) ==
            BindSession(ss, Append(users, newUser), sessionId, newUser)
    IN  IF Falsy(username) \/ Falsy(password) \/ Falsy(displayName) \/ Falsy(email)
        THEN refuse("Username, password, display name, and email are required")
        ELSE IF ~IsUsername(username) THEN refuse("Username must be 3-20 characters")
        ELSE IF Len(password) < 6 THEN refuse("Password must be at least 6 characters")
        ELSE IF FindUser(users, "username", username).id # Null
        THEN refuse("Username already exists")
        ELSE IF FindUser(users, "email", email).id # Null
        THEN refuse("Email already in use")
        ELSE save([id |-> NewUserId(users), username |-> username,
                   passwordHash |-> BcryptHash(password),
                   displayName |-> displayName, email |-> email])

\* POST /auth/login
LoginPOST(ss, users, username, password, sessionId) ==
    LET refuse(status, message) ==
            [ss |-> ss, users |-> users,
             reply |-> AuthReply(status, FALSE, FALSE, Null, message)]
        login(user) ==
            IF user.id = Null THEN refuse(401, "Invalid username or password")
            ELSE IF ~BcryptCompare(password, user.passwordHash)
            THEN refuse(401, "Invalid username or password")
            ELSE BindSession(ss, users, sessionId, user)
    IN  IF Falsy(username) \/ Falsy(password)
        THEN refuse(400, "Username and password are required")
        ELSE login(FindUser(users, "username", username))

\* POST /auth/logout
LogoutPOST(ss, users, sessionId) ==
    LET reply(v, status, success, message) ==
            [ss |-> v, users |-> users,
             reply |-> AuthReply(status, success, FALSE, sessionId, message)]
        cleared(updated) ==
            IF updated.ret.sessionId = Null
            THEN reply(updated.ss, 500, FALSE, "Failed to update session")
            ELSE reply(updated.ss, 200, TRUE, "Logout successful")
        logout(session) ==
            IF session.sessionId = Null THEN reply(ss, 400, FALSE, "Invalid session")
            ELSE IF Falsy(session.userId) THEN reply(ss, 200, TRUE, "User was not logged in")
            ELSE cleared(updateSession(ss, sessionId,
                            [NoUpdates EXCEPT !.userId = Undefined, !.username = Undefined],
                            "none"))
    IN  IF Falsy(sessionId) THEN reply(ss, 400, FALSE, "SessionId is required")
        ELSE logout(getSession(ss, sessionId, "none").ret)

\* GET /auth/me
MeGET(ss, users, sessionId) ==
    LET me(session) ==
            IF session.sessionId = Null
            THEN AuthReply(400, FALSE, FALSE, Null, "Invalid session")
            ELSE IF Falsy(session.userId)
            THEN AuthReply(200, TRUE, FALSE, session.sessionId, "")
            ELSE IF FindUser(users, "id", session.userId).id = Null
            THEN AuthReply(200, TRUE, FALSE, session.sessionId, "")
            ELSE AuthReply(200, TRUE, TRUE, session.sessionId,
                           FindUser(users, "id", session.userId).username)
    IN  [ss |-> ss, users |-> users,
         reply |-> IF Falsy(sessionId)
                   THEN AuthReply(400, FALSE, FALSE, Null, "SessionId is required")
                   ELSE me(getSession(ss, sessionId, "none").ret)]

(***************************************************************************)
(* The capability facade of an app loaded from GitHub                      *)
(***************************************************************************)
\* securityConfig.rateLimiting.timeWindow, in milliseconds
TimeWindow == 60 * 1000

\* securityConfig.rateLimiting.operations, for the storage operations
OperationLimits == [getData |-> 100, setData |-> 50, deleteData |-> 20]

\* the rate-limit state loadAppFromGithub gives an app; an operation that
\* was never counted has no timestamps
NewRateLimitState ==
    [operations |-> [op \in DOMAIN OperationLimits |-> <<>>], lastWarning |-> 0]

\* checkRateLimit of createSecureStorage at time now: the timestamps inside
\* the window are kept; at the limit only lastWarning may move
checkRateLimit(rateLimitState, operation, now) ==
    LET check(kept) ==
            IF Len(kept) >= OperationLimits[operation]
            THEN [ok |-> FALSE,
                  state |-> [operations |->
                                 [rateLimitState.operations EXCEPT ![operation] = kept],
                             lastWarning |->
                                 IF now - rateLimitState.lastWarning > TimeWindow
                                 THEN now ELSE rateLimitState.lastWarning]]
            ELSE [ok |-> TRUE,
                  state |-> [rateLimitState EXCEPT
                                 !.operations[operation] = Append(kept, now)]]
        inWindow(timestamp) == now - timestamp < TimeWindow
    IN  check(SelectSeq(rateLimitState.operations[operation], inWindow))

\* getKeyPrefix: an empty namespace is falsy
getKeyPrefix(appId, namespace) ==
    IF namespace # "" THEN "app_" \o appId \o "_" \o namespace \o "_"
    ELSE "app_" \o appId \o "_"

\* validateData, for the string data of BbsStorage
validateData(data) ==
    ~(\/ Includes(data, "function")
      \/ Includes(data, "=>")
      \/ Includes(data, "eval")
      \/ Includes(data, "new Function"))

\* namespace.replace(/[^a-zA-Z0-9_-]/g, '_')
RECURSIVE SafeNamespace(_)
SafeNamespace(namespace) ==
    IF Len(namespace) = 0 THEN ""
    ELSE (IF KeepWordChars(CharAt(namespace, 1)) = "" THEN "_"
          ELSE CharAt(namespace, 1)) \o SafeNamespace(Tail(namespace))

\* createSecureServices: the namespace of each storage it hands out
\* (storage, getUserStorage(userId), getNamespacedStorage(namespace))
ScopeNamespace(scope) ==
    IF scope.kind = "user" THEN "user_" \o scope.name
    ELSE IF scope.kind = "namespaced" THEN SafeNamespace(scope.name)
    ELSE ""

\* The storage underneath the facades, DataService.getStorage: the KeyValue
\* documents of one app id, key -> value.  deleteData reports whether a
\* document was deleted.
BaseGetData(store, key) == IF key \in DOMAIN store THEN store[key] ELSE Null

BaseSetData(store, key, data) ==
    [k \in DOMAIN store \cup {key} |-> IF k = key THEN data ELSE store[k]]

BaseDeleteData(store, key) == [k \in DOMAIN store \ {key} |-> store[k]]

\* the result of a facade call: the store, the rate-limit state and the
\* value returned
StorageResult(store, state, ret) == [store |-> store, state |-> state, ret |-> ret]

\* createSecureStorage(...).getData
SecureGetData(store, rateLimitState, appId, namespace, key, now) ==
    LET get(checked) ==
            IF ~checked.ok THEN StorageResult(store, checked.state, Null)
            ELSE StorageResult(store, checked.state,
                               BaseGetData(store, getKeyPrefix(appId, namespace) \o key))
    IN  get(checkRateLimit(rateLimitState, "getData", now))

\* createSecureStorage(...).setData
SecureSetData(store, rateLimitState, appId, namespace, key, data, now) ==
    LET set(checked) ==
            IF ~checked.ok THEN StorageResult(store, checked.state, FALSE)
            ELSE IF ~validateData(data) THEN StorageResult(store, checked.state, FALSE)
            ELSE StorageResult(
                     BaseSetData(store, getKeyPrefix(appId, namespace) \o key, data),
                     checked.state, TRUE)
    IN  set(checkRateLimit(rateLimitState, "setData", now))

\* createSecureStorage(...).deleteData
SecureDeleteData(store, rateLimitState, appId, namespace, key, now) ==
    LET delete(checked) ==
            IF ~checked.ok THEN StorageResult(store, checked.state, FALSE)
            ELSE StorageResult(
                     BaseDeleteData(store, getKeyPrefix(appId, namespace) \o key),
                     checked.state,
                     (getKeyPrefix(appId, namespace) \o key) \in DOMAIN store)
    IN  delete(checkRateLimit(rateLimitState, "deleteData", now))

(***************************************************************************)
(* State                                                                   *)
(***************************************************************************)
VARIABLES
    sessions,             \* the sessions collection: session key -> document
    appRegistry,          \* appLoader's appRegistry, in insertion order
    installedGithubApps,  \* appLoader's list of installed GitHub URLs
    githubApps,           \* githubLoader's cache: app id -> loaded app
    reply,                \* the reply to the last command request
    lastReq,              \* the last request and the state it found
    submitted,            \* session key -> the commands the endpoint accepted
    nreq,                 \* number of requests made so far
    solo,                 \* the world in which only the commands of SoloKey ran
    shared,               \* the sessions when only the commands of SoloKey run,
                          \* each on the registry it found
    users,                \* the users collection, in insertion order
    authReply,            \* the last auth request and the reply to it
    svcRet,               \* the last call of the session service and its result
    inflight,             \* request -> the command request in flight and its position
    kvStore,              \* the storage under the facades: store key -> value
    kvWriter,             \* store key -> the app whose facade wrote the value
    rateLimits,           \* app id -> the rate-limit state of the loaded app
    clock,                \* Date.now()
    kvReply,              \* the last facade call and what it returned
    lastEnv,              \* what the environment decided during the last command request
    lastWorld,            \* the world the last command request found
    refreshPending,       \* loadInstalledApps started refreshGithubApps and it has not finished
    removed,              \* the URLs uninstalled with success and not installed since
    overlap,              \* the command request that took its copy of the registry
    profiles,             \* app id -> what validation reads of the app registered under it
    lifecycle,            \* the registrations and onInit calls since the boot, in order
    admitted,             \* how many calls of the app were let through, by operation and time
    loadedAt,             \* Date.now() when the app of the facade was loaded
    running,              \* the code of a remote app that is executing, and for what
    elapsed               \* the wall-clock time it has been executing, in milliseconds

vars == <<sessions, appRegistry, installedGithubApps, githubApps, reply, lastReq,
          submitted, nreq, solo, shared, users, authReply, svcRet,
          inflight, kvStore, kvWriter, rateLimits, clock, kvReply, lastEnv, lastWorld,
          refreshPending, removed, overlap, profiles, lifecycle, admitted, loadedAt,
          running, elapsed>>

\* the variables of the capability facades
keyVars == <<kvStore, kvWriter, rateLimits, clock, kvReply>>

\* the variables of the auth endpoints
authVars == <<users, authReply>>

\* the variables of the command endpoint other than the sessions
shellVars == <<appRegistry, installedGithubApps, githubApps, reply, lastReq, submitted,
               solo, shared>>

\* what is recorded about the environment of the last command request
probeVars == <<lastEnv, lastWorld>>

\* no request is between its copy of the registry and its dispatch
NoOverlap == [phase |-> "idle", sessionId |-> "", command |-> "", apps |-> <<>>]

\* the variables of a reload of the registry
loaderVars == <<refreshPending, removed, overlap>>

\* the variables of admission to the registry and of the rate limits
admissionVars == <<profiles, lifecycle, admitted, loadedAt>>

\* the variables of the execution of remote code
sandboxVars == <<running, elapsed>>

\* what isValidBbsApp reads of an app: whether the required fields are
\* present and typed, and the lengths of its texts
Profile(typed, description, welcome, response) ==
    [typed |-> typed, description |-> description, welcome |-> welcome,
     response |-> response]

\* the built-in apps have short texts
BuiltInProfile == Profile(TRUE, 40, 400, 400)

\* the session keys clients use
Keys == {"k1", "k2"}

World ==
    [sessions |-> sessions, appRegistry |-> appRegistry,
     installedGithubApps |-> installedGithubApps, githubApps |-> githubApps]

SetWorld(w) ==
    /\ sessions' = w.sessions
    /\ appRegistry' = w.appRegistry
    /\ installedGithubApps' = w.installedGithubApps
    /\ githubApps' = w.githubApps

\* no code of a remote app is executing; outcome is how the last execution
\* ended
Idle == [entry |-> "none", url |-> "", outcome |-> "none"]

\* the server after start-up: an empty Store and the built-in apps loaded
BootWorld ==
    [sessions |-> <<>>, appRegistry |-> loadInstalledApps,
     installedGithubApps |-> <<>>, githubApps |-> <<>>]

\* the persisted area of a key, as getSession reports it
AreaOf(ss, k) == IF k \in DOMAIN ss THEN SessionObject(k, ss[k]).currentArea ELSE "main"

NoRequest ==
    [op |-> "none", sessionId |-> "", command |-> "", areaBefore |-> "",
     appsBefore |-> <<>>, sessionsBefore |-> <<>>]

\* the command requests that can be in flight at the same time
Requests == {"r1", "r2"}

\* a request: pc is its position in POST, session the object getSession gave
\* it, result the CommandResult, history the array addToHistory is writing
IdleRequest ==
    [pc |-> "idle", sessionId |-> "", command |-> "", session |-> NoSession,
     result |-> CommandResult(Null, "", "", FALSE), history |-> <<>>]

NoServiceCall ==
    [op |-> "none", sessionId |-> "", area |-> "", storeFault |-> "none", ok |-> FALSE,
     session |-> NoSession]

\* the repositories whose apps are loaded with services
FacadeUrls == {"https://github.com/o/r", "https://github.com/o/r/tree/main/x"}

\* the ids loadAppFromGithub gives these apps
FacadeApps == {GithubAppId(parseGithubUrl(url)) : url \in FacadeUrls}

NoFacadeCall ==
    [op |-> "none", appId |-> "", namespace |-> "", key |-> "", storeKey |-> "",
     ret |-> Null, found |-> Null]

NoAuthRequest ==
    [op |-> "none", sessionId |-> "", wasBound |-> FALSE,
     reply |-> AuthReply(0, FALSE, FALSE, Null, "")]

Init ==
    /\ sessions = BootWorld.sessions
    /\ appRegistry = BootWorld.appRegistry
    /\ installedGithubApps = BootWorld.installedGithubApps
    /\ githubApps = BootWorld.githubApps
    /\ reply = ErrorReply(0)
    /\ lastReq = NoRequest
    /\ submitted = [k \in Keys |-> <<>>]
    /\ nreq = 0
    /\ solo = BootWorld
    /\ shared = BootWorld.sessions
    /\ users = <<>>
    /\ authReply = NoAuthRequest
    /\ svcRet = NoServiceCall
    /\ inflight = [r \in Requests |-> IdleRequest]
    /\ kvStore = <<>>
    /\ kvWriter = <<>>
    /\ rateLimits = [appId \in FacadeApps |-> NewRateLimitState]
    /\ clock = 0
    /\ kvReply = NoFacadeCall
    /\ lastEnv = QuietEnv
    /\ lastWorld = BootWorld
    /\ refreshPending = FALSE
    /\ removed = {}
    /\ overlap = NoOverlap
    /\ profiles = [id \in {loadInstalledApps[i].id : i \in 1..Len(loadInstalledApps)} |->
                      BuiltInProfile]
    /\ lifecycle = <<>>
    /\ admitted = {}
    /\ loadedAt = 0
    /\ running = Idle
    /\ elapsed = 0

\* one request to POST /terminal/command, processed to its end
CommandRequest(k, command, env) ==
    \E done \in {CommandPOST(World, k, command, env)} :
        /\ SetWorld(done.w)
        /\ reply' = done.reply
        /\ lastReq' = [op |-> "command", sessionId |-> k, command |-> command,
                       areaBefore |-> AreaOf(sessions, k),
                       appsBefore |-> appRegistry,
                       sessionsBefore |-> sessions]
        /\ submitted' = IF done.reply.status = 200
                        THEN [submitted EXCEPT ![k] = Append(@, command)]
                        ELSE submitted
        /\ nreq' = nreq + 1

(***************************************************************************)
(* Spec: clients of two sessions send commands one request at a time; the  *)
(* registry holds the built-in apps.                                       *)
(***************************************************************************)
\* bound on the number of requests of a behaviour
MaxRequests == 3

\* the commands clients send
ShellCommands == {"1", "2x", "n", " b ", "menu", ""}

ShellCommand(k, command) ==
    /\ nreq < MaxRequests
    /\ CommandRequest(k, command, QuietEnv)
    /\ UNCHANGED <<solo, shared, authVars, svcRet, inflight, keyVars, probeVars,
                   loaderVars, admissionVars, sandboxVars>>

Next == \E k \in Keys, command \in ShellCommands : ShellCommand(k, command)

Spec == Init /\ [][Next]_vars

(***************************************************************************)
(* SpecRegistry: the commands include the admin verbs that install and     *)
(* uninstall a GitHub app, so the registry changes.  solo is the world of  *)
(* the run in which only the commands addressed to SoloKey are executed,   *)
(* with the same outcomes of the loader and of the remote app's code.      *)
(***************************************************************************)
MaxRegistryRequests == 4

SoloKey == "k1"

AppUrl == "https://github.com/o/r"

RegistryCommands == {"install github " \o AppUrl, "uninstall github " \o AppUrl, "4", "b"}

\* what the sandboxed code of the remote app may return as its screen
RemoteOutcomes == {"same", "page", Null, "throw"}

\* a reliable Store; the loader and the remote app's code do as given
RemoteEnv(load, appOut) == Env("none", "none", "none", "none", load, FALSE, FALSE, appOut)

\* the loader runs only for an install verb, an app's code only for a
\* command the Shell does not answer itself: elsewhere the outcome is fixed
RegistryCommand(k, command, load, appOut) ==
    /\ nreq < MaxRegistryRequests
    /\ load = "ok" => (IsInstallVerb(Normalized(command))
                          \/ StartsWith(Normalized(command), "HTTP"))
    /\ appOut # "same" => ~IsUniversal(Normalized(command))
    /\ CommandRequest(k, command, RemoteEnv(load, appOut))
    /\ solo' = IF k = SoloKey
               THEN CommandPOST(solo, k, command, RemoteEnv(load, appOut)).w
               ELSE solo
    /\ shared' = IF k = SoloKey
                 THEN CommandPOST([World EXCEPT !.sessions = shared], k, command,
                                  RemoteEnv(load, appOut)).w.sessions
                 ELSE shared
    /\ UNCHANGED <<authVars, svcRet, inflight, keyVars, probeVars,
                   loaderVars, admissionVars, sandboxVars>>

RegistryNext ==
    \E k \in Keys, command \in RegistryCommands, load \in {"ok", "fail"},
       appOut \in RemoteOutcomes :
        RegistryCommand(k, command, load, appOut)

SpecRegistry == Init /\ [][RegistryNext]_vars

(***************************************************************************)
(* SpecHistory: one client sends more commands than the history holds.     *)
(* The first HistoryWarmup commands are the distinct numerals 10, 11, ...; *)
(* after them the client chooses freely.                                   *)
(***************************************************************************)
HistoryWarmup == 98

MaxHistoryRequests == 103

HistoryCommands == {"x", "1", " b "}

HistoryCommand(command) ==
    /\ nreq < MaxHistoryRequests
    /\ nreq < HistoryWarmup => command = NumToString(nreq + 10)
    /\ nreq >= HistoryWarmup => command \in HistoryCommands
    /\ CommandRequest("k1", command, QuietEnv)
    /\ UNCHANGED <<solo, shared, authVars, svcRet, inflight, keyVars, probeVars,
                   loaderVars, admissionVars, sandboxVars>>

HistoryNext ==
    \E command \in HistoryCommands \cup {NumToString(nreq + 10)} : HistoryCommand(command)

SpecHistory == Init /\ [][HistoryNext]_vars

(***************************************************************************)
(* SpecAuth: clients register, log in, log out and ask who they are.       *)
(***************************************************************************)
MaxAuthRequests == 4

Usernames == {"alice", "al", "Alice"}
Passwords == {"secret1", "wrong1"}

\* an auth request, processed to its end
AuthRequest(op, k, done) ==
    /\ nreq < MaxAuthRequests
    /\ sessions' = done.ss
    /\ users' = done.users
    /\ authReply' = [op |-> op, sessionId |-> k,
                     wasBound |-> k \in DOMAIN sessions /\ ~Falsy(sessions[k].userId),
                     reply |-> done.reply]
    /\ nreq' = nreq + 1
    /\ UNCHANGED <<shellVars, svcRet, inflight, keyVars, probeVars,
                   loaderVars, admissionVars, sandboxVars>>

Register(k, username) ==
    \E done \in {RegisterPOST(sessions, users, username, "secret1", "Sysop",
                               username \o "@bbs", k)} :
        AuthRequest("register", k, done)

Login(k, username, password) ==
    \E done \in {LoginPOST(sessions, users, username, password, k)} :
        AuthRequest("login", k, done)

Logout(k) ==
    \E done \in {LogoutPOST(sessions, users, k)} : AuthRequest("logout", k, done)

Me(k) ==
    \E done \in {MeGET(sessions, users, k)} : AuthRequest("me", k, done)

AuthNext ==
    \/ \E k \in Keys \cup {""}, username \in Usernames : Register(k, username)
    \/ \E k \in Keys \cup {""}, username \in Usernames, password \in Passwords :
          Login(k, username, password)
    \/ \E k \in Keys \cup {""} : Logout(k)
    \/ \E k \in Keys \cup {""} : Me(k)

SpecAuth == Init /\ [][AuthNext]_vars

(***************************************************************************)
(* SpecService: a caller uses the operations of the session service, and   *)
(* the Store may fail the writes of append and set-current-area.           *)
(***************************************************************************)
MaxServiceCalls == 4

\* one entry more than the history may hold
LongHistory == [i \in 1..(HistoryLimit + 1) |-> "h"]

ServiceAreas == {"messageBoards:home", "hangman:home"}

\* which Store call of a write fails: none, the direct update, or the
\* direct update and the save() that follows it
WriteFaults == {"none", "update", "updateSave"}

\* a call of the service, made and returned
ServiceCall(op, k, area, storeFault, done, ok, session) ==
    /\ nreq < MaxServiceCalls
    /\ sessions' = done.ss
    /\ svcRet' = [op |-> op, sessionId |-> k, area |-> area, storeFault |-> storeFault,
                  ok |-> ok, session |-> session]
    /\ nreq' = nreq + 1
    /\ UNCHANGED <<shellVars, authVars, inflight, keyVars, probeVars,
                   loaderVars, admissionVars, sandboxVars>>

Create(k) ==
    \E done \in {createSession(sessions, k, "none")} :
        ServiceCall("create", k, "", "none", done, TRUE, done.ret)

Get(k) ==
    \E done \in {getSession(sessions, k, "none")} :
        ServiceCall("get", k, "", "none", done, done.ret.sessionId # Null, done.ret)

Update(k, updates) ==
    \E done \in {updateSession(sessions, k, updates, "none")} :
        ServiceCall("update", k, "", "none", done, done.ret.sessionId # Null, done.ret)

AppendHistory(k, command, storeFault) ==
    \E done \in {addToHistory(sessions, k, command, storeFault)} :
        ServiceCall("append", k, "", storeFault, done, done.ret, NoSession)

SetCurrentArea(k, area, storeFault) ==
    \E done \in {setCurrentArea(sessions, k, area, storeFault)} :
        ServiceCall("setCurrentArea", k, area, storeFault, done, done.ret, NoSession)

ServiceNext ==
    \/ \E k \in Keys : Create(k)
    \/ \E k \in Keys : Get(k)
    \/ \E k \in Keys,
          updates \in {[NoUpdates EXCEPT !.currentArea = "hangman:game"],
                       [NoUpdates EXCEPT !.commandHistory = <<LongHistory>>],
                       [NoUpdates EXCEPT !.commandHistory = <<(<<"one", "two">>)>>]} :
          Update(k, updates)
    \/ \E k \in Keys, storeFault \in WriteFaults : AppendHistory(k, "c", storeFault)
    \/ \E k \in Keys, area \in ServiceAreas, storeFault \in WriteFaults :
          SetCurrentArea(k, area, storeFault)

SpecService == Init /\ [][ServiceNext]_vars

(***************************************************************************)
(* SpecConcurrent: two command requests are in flight at the same time.    *)
(* A request gives way to the other one where POST awaits the Store: after *)
(* it has its session, after processCommand, between the findOne and the   *)
(* updateOne of addToHistory, and before setCurrentArea.                   *)
(***************************************************************************)
\* the commands each request may carry: no command is sent by both
RequestCommands == [r1 |-> {"1", "x"}, r2 |-> {"2", "menu"}]

\* what a step of a request leaves alone
RequestFrame ==
    UNCHANGED <<reply, lastReq, submitted, nreq, solo, shared, authVars, svcRet, keyVars,
                probeVars, loaderVars, admissionVars, sandboxVars>>

\* POST: the request arrives with its body; getSession or createSession
Arrive(r, k, command) ==
    /\ inflight[r].pc = "idle"
    /\ \E made \in {IF getSession(sessions, k, "none").ret.sessionId = Null
                     THEN createSession(sessions, k, "none")
                     ELSE getSession(sessions, k, "none")} :
          /\ sessions' = made.ss
          /\ inflight' = [inflight EXCEPT ![r] =
                            [IdleRequest EXCEPT !.pc = "opened", !.sessionId = k,
                                                !.command = command,
                                                !.session = made.ret]]
    /\ UNCHANGED <<appRegistry, installedGithubApps, githubApps>>
    /\ RequestFrame

\* POST: processCommand(session.currentArea, command, session, currentApps)
Process(r) ==
    /\ inflight[r].pc = "opened"
    /\ \E processed \in {processCommand(World, inflight[r].session.currentArea,
                               inflight[r].command, inflight[r].session, appRegistry,
                               QuietEnv)} :
          /\ SetWorld(processed.w)
          /\ inflight' = [inflight EXCEPT ![r].pc = "processed",
                                          ![r].result = processed.res]
    /\ RequestFrame

\* addToHistory: Session.findOne, push, shift
HistoryFind(r) ==
    /\ inflight[r].pc = "processed"
    /\ inflight' =
          IF inflight[r].sessionId \in DOMAIN sessions
          THEN [inflight EXCEPT ![r].pc = "historyRead",
                  ![r].history = PushHistory(sessions[inflight[r].sessionId].commandHistory,
                                             inflight[r].command)]
          ELSE [inflight EXCEPT ![r].pc = "logged"]
    /\ UNCHANGED <<sessions, appRegistry, installedGithubApps, githubApps>>
    /\ RequestFrame

\* addToHistory: Session.collection.updateOne({ $set: { commandHistory } })
HistoryWrite(r) ==
    /\ inflight[r].pc = "historyRead"
    /\ sessions' =
          IF inflight[r].sessionId \in DOMAIN sessions
          THEN [sessions EXCEPT ![inflight[r].sessionId].commandHistory =
                                    inflight[r].history]
          ELSE sessions
    /\ inflight' = [inflight EXCEPT ![r].pc = "logged"]
    /\ UNCHANGED <<appRegistry, installedGithubApps, githubApps>>
    /\ RequestFrame

\* POST: "If area changed, update it", and the response
AreaWrite(r) ==
    /\ inflight[r].pc = "logged"
    /\ sessions' =
          IF ~Falsy(inflight[r].result.area)
             /\ inflight[r].result.area # inflight[r].session.currentArea
          THEN setCurrentArea(sessions, inflight[r].sessionId, inflight[r].result.area,
                              "none").ss
          ELSE sessions
    /\ inflight' = [inflight EXCEPT ![r].pc = "done"]
    /\ UNCHANGED <<appRegistry, installedGithubApps, githubApps>>
    /\ RequestFrame

ConcurrentNext ==
    \/ \E r \in Requests, k \in Keys : \E command \in RequestCommands[r] :
          Arrive(r, k, command)
    \/ \E r \in Requests : Process(r)
    \/ \E r \in Requests : HistoryFind(r)
    \/ \E r \in Requests : HistoryWrite(r)
    \/ \E r \in Requests : AreaWrite(r)

SpecConcurrent == Init /\ [][ConcurrentNext]_vars

(***************************************************************************)
(* SpecKeys: the apps loaded from GitHub use the storages of their         *)
(* facades, all of them created over the one storage of the services the   *)
(* loader was given.                                                       *)
(***************************************************************************)
MaxKeyCalls == 2

\* the storages an app asks its services for
Scopes ==
    {[kind |-> "storage", name |-> ""], [kind |-> "user", name |-> "u1"],
     [kind |-> "namespaced", name |-> "a/b"]}

StorageKeys == {"k", "x_k"}

StorageData == {"v", "eval(1)"}

\* a call through the facade of appId at the store key storeKey; found is
\* the app that wrote the document the call read, replaced or deleted, if
\* there was one
FacadeCall(op, appId, namespace, key, storeKey, done) ==
    /\ nreq < MaxKeyCalls
    /\ kvStore' = done.store
    /\ kvWriter' =
          [k \in DOMAIN done.store |->
              IF op = "setData" /\ done.ret /\ k = storeKey THEN appId ELSE kvWriter[k]]
    /\ rateLimits' = [rateLimits EXCEPT ![appId] = done.state]
    /\ kvReply' =
          [op |-> op, appId |-> appId, namespace |-> namespace, key |-> key,
           storeKey |-> storeKey, ret |-> done.ret,
           found |-> IF /\ (IF op = "getData" THEN done.ret # Null ELSE done.ret)
                        /\ storeKey \in DOMAIN kvStore
                     THEN kvWriter[storeKey] ELSE Null]
    /\ nreq' = nreq + 1
    /\ UNCHANGED <<sessions, shellVars, authVars, svcRet, inflight, clock, probeVars,
                   loaderVars, admissionVars, sandboxVars>>

GetData(appId, scope, key) ==
    \E namespace \in {ScopeNamespace(scope)} :
        \E done \in {SecureGetData(kvStore, rateLimits[appId], appId, namespace, key,
                                   clock)} :
            FacadeCall("getData", appId, namespace, key,
                       getKeyPrefix(appId, namespace) \o key, done)

SetData(appId, scope, key, data) ==
    \E namespace \in {ScopeNamespace(scope)} :
        \E done \in {SecureSetData(kvStore, rateLimits[appId], appId, namespace, key,
                                   data, clock)} :
            FacadeCall("setData", appId, namespace, key,
                       getKeyPrefix(appId, namespace) \o key, done)

DeleteData(appId, scope, key) ==
    \E namespace \in {ScopeNamespace(scope)} :
        \E done \in {SecureDeleteData(kvStore, rateLimits[appId], appId, namespace, key,
                                      clock)} :
            FacadeCall("deleteData", appId, namespace, key,
                       getKeyPrefix(appId, namespace) \o key, done)

\* a rate-limit window passes between two calls
WindowPasses ==
    /\ nreq < MaxKeyCalls
    /\ clock' = clock + TimeWindow
    /\ nreq' = nreq + 1
    /\ UNCHANGED <<sessions, shellVars, authVars, svcRet, inflight, kvStore, kvWriter,
                   rateLimits, kvReply, probeVars, loaderVars, admissionVars, sandboxVars>>

KeysNext ==
    \/ \E appId \in FacadeApps, scope \in Scopes, key \in StorageKeys :
          GetData(appId, scope, key)
    \/ \E appId \in FacadeApps, scope \in Scopes, key \in StorageKeys,
          data \in StorageData :
          SetData(appId, scope, key, data)
    \/ \E appId \in FacadeApps, scope \in Scopes, key \in StorageKeys :
          DeleteData(appId, scope, key)
    \/ WindowPasses

SpecKeys == Init /\ [][KeysNext]_vars

(***************************************************************************)
(* SpecMenu: one client installs and uninstalls the GitHub app, enters it  *)
(* and asks for the main menu.  The Store is reliable and the load works.  *)
(***************************************************************************)
MaxMenuRequests == 4

\* the commands that ask for the main menu, as the client types them
MenuCommands == {"menu", " Main "}

MenuSessionCommands ==
    {"install github " \o AppUrl, "uninstall github " \o AppUrl, "4"} \cup MenuCommands

MenuCommand(command) ==
    /\ nreq < MaxMenuRequests
    /\ CommandRequest(SoloKey, command, RemoteEnv("ok", "same"))
    /\ UNCHANGED <<solo, shared, authVars, svcRet, inflight, keyVars, probeVars,
                   loaderVars, admissionVars, sandboxVars>>

MenuNext == \E command \in MenuSessionCommands : MenuCommand(command)

SpecMenu == Init /\ [][MenuNext]_vars

(***************************************************************************)
(* SpecVerbs: one client enters Hangman, plays, and sends the universal    *)
(* verbs in every area it reaches.                                         *)
(***************************************************************************)
MaxVerbRequests == 3

\* the universal verbs, as the client types them
VerbCommands == {"help", " Main ", "menu", "exit", "Quit", " x ", "logoff", "debug"}

VerbSessionCommands == {"2", "p"} \cup VerbCommands

VerbCommand(command) ==
    /\ nreq < MaxVerbRequests
    /\ CommandRequest(SoloKey, command, QuietEnv)
    /\ UNCHANGED <<solo, shared, authVars, svcRet, inflight, keyVars, probeVars,
                   loaderVars, admissionVars, sandboxVars>>

VerbNext == \E command \in VerbSessionCommands : VerbCommand(command)

SpecVerbs == Init /\ [][VerbNext]_vars

(***************************************************************************)
(* SpecRemote: one client installs the GitHub app, enters it and sends it  *)
(* commands; the code of the app stays on its screen, returns a screen     *)
(* with a ':' in it, or throws.                                            *)
(***************************************************************************)
MaxRemoteRequests == 4

\* a command the Shell forwards to the app
AppCommand == "go"

RemoteSessionCommands == {"install github " \o AppUrl, "4", AppCommand}

\* what the sandboxed code does with a forwarded command
RemoteAppOutcomes == {"same", "a:b", "throw"}

\* the recorded request: the environment and the world it found
Probe(env) ==
    /\ lastEnv' = env
    /\ lastWorld' = World

\* the code of the app runs only for the forwarded command
RemoteCommand(command, appOut) ==
    /\ nreq < MaxRemoteRequests
    /\ appOut # "same" => command = AppCommand
    /\ CommandRequest(SoloKey, command, RemoteEnv("ok", appOut))
    /\ Probe(RemoteEnv("ok", appOut))
    /\ UNCHANGED <<solo, shared, authVars, svcRet, inflight, keyVars,
                   loaderVars, admissionVars, sandboxVars>>

RemoteNext ==
    \E command \in RemoteSessionCommands, appOut \in RemoteAppOutcomes :
        RemoteCommand(command, appOut)

SpecRemote == Init /\ [][RemoteNext]_vars

(***************************************************************************)
(* SpecFaults: one client sends commands while the Store fails some of     *)
(* the writes of the request: the updateSession of the Shell, the append   *)
(* to the history, the write of the area.                                  *)
(***************************************************************************)
MaxFaultRequests == 2

FaultSessionCommands == {"1", "menu", "n"}

\* the Store calls that fail during a request: of updateSession the lookup,
\* of addToHistory the lookup or both writes, of setCurrentArea both writes
UpdateFaults == {"none", "find"}
HistoryFaults == {"none", "find", "updateSave"}
AreaFaults == {"none", "updateSave"}

FaultEnv(fUpd, fHist, fArea) == Env("none", fUpd, fHist, fArea, "fail", FALSE, FALSE, "same")

FaultCommand(command, fUpd, fHist, fArea) ==
    /\ nreq < MaxFaultRequests
    /\ CommandRequest(SoloKey, command, FaultEnv(fUpd, fHist, fArea))
    /\ Probe(FaultEnv(fUpd, fHist, fArea))
    /\ UNCHANGED <<solo, shared, authVars, svcRet, inflight, keyVars,
                   loaderVars, admissionVars, sandboxVars>>

FaultNext ==
    \E command \in FaultSessionCommands, fUpd \in UpdateFaults, fHist \in HistoryFaults,
       fArea \in AreaFaults :
        FaultCommand(command, fUpd, fHist, fArea)

SpecFaults == Init /\ [][FaultNext]_vars

(***************************************************************************)
(* SpecLoader: one client installs and uninstalls the GitHub app from the  *)
(* main menu, and the host reloads the registry.  The loader's cache is    *)
(* fresh or stale as time decides, and a fetch works or fails.             *)
(***************************************************************************)
MaxLoaderSteps == 4

\* refreshGithubApps: the URL reconstructed from the stored repoInfo
RefreshUrl(repoInfo) ==
    "https://github.com/" \o repoInfo.owner \o "/" \o repoInfo.repo
    \o (IF repoInfo.branch # "" /\ repoInfo.branch # "main"
        THEN "/tree/" \o repoInfo.branch ELSE "")
    \o (IF repoInfo.path # "" THEN "/" \o repoInfo.path ELSE "")

\* refreshGithubApps: every app of the cache is loaded again; the apps that
\* loaded are returned.  ids are the ids still to do.
RECURSIVE RefreshFrom(_, _, _, _)
RefreshFrom(w, ids, apps, env) ==
    IF ids = {} THEN [w |-> w, apps |-> apps]
    ELSE LET next(appId) ==
                 LET add(loaded) ==
                         RefreshFrom(loaded.w, ids \ {appId},
                                     IF loaded.ret.id = Null THEN apps
                                     ELSE Append(apps, loaded.ret), env)
                 IN  add(loadAppFromGithub(w,
                            RefreshUrl(parseGithubUrl(w.githubApps[appId].source)), env))
         IN  next(CHOOSE appId \in ids : TRUE)

refreshGithubApps(w, env) == RefreshFrom(w, DOMAIN w.githubApps, <<>>, env)

\* apps.forEach(app => appRegistry[app.id] = app)
RECURSIVE RegisterAll(_, _)
RegisterAll(reg, apps) ==
    IF Len(apps) = 0 THEN reg ELSE RegisterAll(RegistryPut(reg, Head(apps)), Tail(apps))

\* a URL that parseGithubUrl rejects: its path has one part
BadUrl == "https://github.com/x"
LoaderUrls == {AppUrl, BadUrl}

LoaderCommands ==
    {"install github " \o AppUrl, "install github " \o BadUrl, "uninstall github " \o AppUrl}

\* the environment of a load: the Store is reliable
LoaderEnv(load, cacheFresh) ==
    Env("none", "none", "none", "none", load, cacheFresh, FALSE, "same")

\* the age of the cache matters only when the app is in it, the fetch only
\* when the cached entry is not used
LoaderChoice(load, cacheFresh) ==
    /\ cacheFresh => GithubAppId(parseGithubUrl(AppUrl)) \in DOMAIN githubApps
    /\ cacheFresh => load = "fail"

\* an install or uninstall verb sent from the main menu
LoaderCommand(command, load, cacheFresh) ==
    /\ nreq < MaxLoaderSteps
    /\ LoaderChoice(load, cacheFresh)
    /\ command # "install github " \o AppUrl => (load = "fail" /\ ~cacheFresh)
    /\ CommandRequest(SoloKey, command, LoaderEnv(load, cacheFresh))
    /\ Probe(LoaderEnv(load, cacheFresh))
    /\ removed' =
          IF StartsWith(reply'.response, "Successfully uninstalled")
          THEN removed \cup {AppUrl}
          ELSE IF StartsWith(reply'.response, "Successfully installed")
          THEN removed \ {AppUrl}
          ELSE removed
    /\ UNCHANGED <<solo, shared, authVars, svcRet, inflight, keyVars, refreshPending,
                   overlap, admissionVars, sandboxVars>>

\* loadInstalledApps up to its return: the registry is cleared, the
\* built-in apps are loaded, refreshGithubApps is started
Reload ==
    /\ nreq < MaxLoaderSteps
    /\ appRegistry' = loadInstalledApps
    /\ refreshPending' = TRUE
    /\ nreq' = nreq + 1
    /\ lastReq' = [lastReq EXCEPT !.op = "reload"]
    /\ UNCHANGED <<sessions, installedGithubApps, githubApps, reply, submitted,
                   solo, shared, authVars, svcRet, inflight, keyVars, probeVars, removed,
                   overlap, admissionVars, sandboxVars>>

\* refreshGithubApps resolves: the apps that loaded are registered
RefreshDone(load, cacheFresh) ==
    /\ refreshPending
    /\ cacheFresh => GithubAppId(parseGithubUrl(AppUrl)) \in DOMAIN githubApps
    /\ cacheFresh => load # "ok"
    /\ \E done \in {refreshGithubApps(World, LoaderEnv(load, cacheFresh))} :
          /\ appRegistry' = RegisterAll(appRegistry, done.apps)
          /\ githubApps' = done.w.githubApps
    /\ refreshPending' = FALSE
    /\ lastReq' = [lastReq EXCEPT !.op = "refresh"]
    /\ Probe(LoaderEnv(load, cacheFresh))
    /\ UNCHANGED <<sessions, installedGithubApps, reply, submitted, nreq,
                   solo, shared, authVars, svcRet, inflight, keyVars, removed,
                   overlap, admissionVars, sandboxVars>>

LoaderNext ==
    \/ \E command \in LoaderCommands, load \in {"ok", "fail"}, cacheFresh \in BOOLEAN :
          LoaderCommand(command, load, cacheFresh)
    \/ Reload
    \/ \E load \in {"ok", "updated", "fail"}, cacheFresh \in BOOLEAN :
          RefreshDone(load, cacheFresh)

SpecLoader == Init /\ [][LoaderNext]_vars

(***************************************************************************)
(* SpecOverlap: the POST of one client has taken its copy of the registry  *)
(* and waits at the await of handleAppCommand while the POST of another    *)
(* client installs or uninstalls the GitHub app.                           *)
(***************************************************************************)
MaxOverlapSteps == 4

\* the client whose request is split, and the client that writes the registry
Reader == "k1"
Writer == "k2"

ReaderCommands == {"4", "b", "go"}
WriterCommands == {"install github " \o AppUrl, "uninstall github " \o AppUrl}

\* a request of the reader done after a split request leaves no split request
Settled == IF overlap.phase = "done" THEN NoOverlap ELSE overlap

\* a whole request, of the writer at any time, of the reader when it has no
\* request under way
OverlapCommand(k, command) ==
    /\ nreq < MaxOverlapSteps
    /\ \/ k = Writer /\ command \in WriterCommands
       \/ k = Reader /\ command \in ReaderCommands /\ overlap.phase # "pending"
    /\ CommandRequest(k, command, RemoteEnv("ok", "same"))
    /\ Probe(RemoteEnv("ok", "same"))
    /\ overlap' = Settled
    /\ UNCHANGED <<solo, shared, authVars, svcRet, inflight, keyVars, refreshPending,
                   removed, admissionVars, sandboxVars>>

\* POST up to const currentApps = getAllApps()
TakeApps(command) ==
    /\ nreq < MaxOverlapSteps
    /\ overlap.phase # "pending"
    /\ overlap' = [phase |-> "pending", sessionId |-> Reader, command |-> command,
                   apps |-> appRegistry]
    /\ nreq' = nreq + 1
    /\ UNCHANGED <<sessions, appRegistry, installedGithubApps, githubApps, reply, lastReq,
                   submitted, solo, shared, authVars, svcRet, inflight, keyVars, probeVars,
                   refreshPending, removed, admissionVars, sandboxVars>>

\* POST from processCommand on, with the copy of the registry it took
Dispatch ==
    /\ overlap.phase = "pending"
    /\ \E done \in {DispatchPOST(World, overlap.sessionId, overlap.command,
                                 RemoteEnv("ok", "same"), overlap.apps)} :
          /\ SetWorld(done.w)
          /\ reply' = done.reply
          /\ submitted' = IF done.reply.status = 200
                          THEN [submitted EXCEPT ![overlap.sessionId] =
                                   Append(@, overlap.command)]
                          ELSE submitted
    /\ lastReq' = [op |-> "command", sessionId |-> overlap.sessionId,
                   command |-> overlap.command,
                   areaBefore |-> AreaOf(sessions, overlap.sessionId),
                   appsBefore |-> overlap.apps,
                   sessionsBefore |-> sessions]
    /\ Probe(RemoteEnv("ok", "same"))
    /\ overlap' = [overlap EXCEPT !.phase = "done"]
    /\ UNCHANGED <<nreq, solo, shared, authVars, svcRet, inflight, keyVars, refreshPending,
                   removed, admissionVars, sandboxVars>>

OverlapNext ==
    \/ \E k \in {Reader, Writer}, command \in ReaderCommands \cup WriterCommands :
          OverlapCommand(k, command)
    \/ \E command \in {"b", "go"} : TakeApps(command)
    \/ Dispatch

SpecOverlap == Init /\ [][OverlapNext]_vars

(***************************************************************************)
(* SpecAdmission: apps are admitted to the registry: the host loads the    *)
(* app of the bbs-apps directory and the built-in apps, installs and       *)
(* uninstalls apps from GitHub, and refreshes the loaded ones.             *)
(***************************************************************************)
MaxAdmissionSteps == 3

\* securityConfig.maxLengths
MaxLengths ==
    [id |-> 50, name |-> 100, description |-> 500, welcomeScreen |-> 10000,
     response |-> 10000]

RECURSIVE Repeat(_, _)
Repeat(ch, n) == IF n = 0 THEN "" ELSE ch \o Repeat(ch, n - 1)

\* an app object before admission
Candidate(id, name, profile) == [id |-> id, name |-> name, profile |-> profile]

\* the apps a bbs-apps folder may hold
LocalCandidates ==
    {Candidate("local", "Local App", Profile(TRUE, 40, 400, 400)),
     Candidate("local", "Local App", Profile(FALSE, 40, 400, 400)),
     Candidate("local", "Local App", Profile(TRUE, 501, 400, 400)),
     Candidate(Repeat("x", 51), "Local App", Profile(TRUE, 40, 400, 400))}

\* the apps a repository may hold; the loader replaces the id
RemoteCandidates ==
    {Candidate("remote", "Remote App", Profile(TRUE, 40, 400, 400)),
     Candidate("remote", "Remote App", Profile(FALSE, 40, 400, 400)),
     Candidate("remote", "Remote App", Profile(TRUE, 40, 10001, 400)),
     Candidate("remote", "Remote App", Profile(TRUE, 40, 400, 10001))}

\* a repository whose synthesized app id has 58 characters
LongUrl == "https://github.com/" \o Repeat("o", 40) \o "/" \o Repeat("r", 10)
AdmissionUrls == {AppUrl, LongUrl}

\* appLoader's isValidBbsApp: the required properties and their types
isValidBbsAppLoader(obj) == obj.profile.typed

\* githubLoader's isValidBbsApp(obj, appId): types, lengths of the app's own
\* fields, and the results of getWelcomeScreen and handleCommand(null, 'HELP')
isValidBbsApp(obj, appId) ==
    /\ obj.profile.typed
    /\ Len(obj.id) <= MaxLengths.id
    /\ Len(obj.name) <= MaxLengths.name
    /\ obj.profile.description <= MaxLengths.description
    /\ obj.profile.welcome <= MaxLengths.welcomeScreen
    /\ obj.profile.response <= MaxLengths.response

\* an entry of the log of registrations and onInit calls; services is the
\* app id the facade passed to onInit was made for, or Undefined
Registered(id) == [event |-> "register", id |-> id, services |-> Undefined]
Initialised(id, services) == [event |-> "onInit", id |-> id, services |-> services]

\* appRegistry[app.id] = app followed by app.onInit()
RECURSIVE RegisterAndInit(_)
RegisterAndInit(apps) ==
    IF Len(apps) = 0 THEN <<>>
    ELSE <<Registered(Head(apps).id), Initialised(Head(apps).id, Undefined)>>
         \o RegisterAndInit(Tail(apps))

\* appRegistry[app.id] = app of the refresh callback
RECURSIVE RegisterOnly(_)
RegisterOnly(apps) ==
    IF Len(apps) = 0 THEN <<>>
    ELSE <<Registered(Head(apps).id)>> \o RegisterOnly(Tail(apps))

\* loadExternalApps: the apps of the folder that pass isValidBbsApp
ExternalApps(candidate) ==
    IF isValidBbsAppLoader(candidate)
    THEN <<[id |-> candidate.id, name |-> candidate.name, source |-> Undefined]>>
    ELSE <<>>

\* profiles with the profile of the app registered under id
WithProfile(id, profile) ==
    [a \in DOMAIN profiles \cup {id} |-> IF a = id THEN profile ELSE profiles[a]]

\* loadInstalledApps up to its return, with one folder in bbs-apps
LoadApps(candidate) ==
    /\ nreq < MaxAdmissionSteps
    /\ appRegistry' = RegisterAll(RegisterAll(<<>>, ExternalApps(candidate)),
                                  loadInstalledApps)
    /\ profiles' =
          [a \in DOMAIN WithProfile(candidate.id, candidate.profile) |->
              IF HasApp(loadInstalledApps, a) THEN BuiltInProfile
              ELSE WithProfile(candidate.id, candidate.profile)[a]]
    /\ lifecycle' = lifecycle \o RegisterAndInit(ExternalApps(candidate))
                              \o RegisterAndInit(loadInstalledApps)
    /\ refreshPending' = TRUE
    /\ nreq' = nreq + 1
    /\ UNCHANGED <<sessions, installedGithubApps, githubApps, reply, lastReq, submitted,
                   solo, shared, authVars, svcRet, inflight, keyVars, probeVars, removed,
                   overlap, admitted, loadedAt, sandboxVars>>

\* the callback of refreshGithubApps().then: the apps of the cache load
\* again and are registered
RefreshApps ==
    /\ refreshPending
    /\ \E done \in {refreshGithubApps(World, LoaderEnv("ok", FALSE))} :
          /\ appRegistry' = RegisterAll(appRegistry, done.apps)
          /\ githubApps' = done.w.githubApps
          /\ lifecycle' = lifecycle \o RegisterOnly(done.apps)
    /\ refreshPending' = FALSE
    /\ UNCHANGED <<sessions, installedGithubApps, reply, lastReq, submitted, nreq,
                   solo, shared, authVars, svcRet, inflight, keyVars, probeVars, removed,
                   overlap, profiles, admitted, loadedAt, sandboxVars>>

\* installGithubApp(githubUrl) when the repository holds candidate: the load
\* succeeds when the code passes isValidBbsApp
InstallApp(githubUrl, candidate) ==
    /\ nreq < MaxAdmissionSteps
    /\ \E appId \in {GithubAppId(parseGithubUrl(githubUrl))} :
       \E known \in {/\ SeqContains(installedGithubApps, githubUrl)
                     /\ FirstWithSource(appRegistry, githubUrl).id # Null} :
       \E done \in {installGithubApp(World, githubUrl,
                        LoaderEnv(IF isValidBbsApp(candidate, appId) THEN "ok" ELSE "fail",
                                  FALSE))} :
          /\ SetWorld(done.w)
          /\ profiles' = IF done.ret.id # Null /\ ~known
                         THEN WithProfile(done.ret.id, candidate.profile) ELSE profiles
          /\ lifecycle' = IF done.ret.id # Null /\ ~known
                          THEN lifecycle \o RegisterAndInit(<<done.ret>>) ELSE lifecycle
    /\ nreq' = nreq + 1
    /\ UNCHANGED <<reply, lastReq, submitted, solo, shared, authVars, svcRet, inflight,
                   keyVars, probeVars, loaderVars, admitted, loadedAt, sandboxVars>>

\* uninstallGithubApp(githubUrl)
UninstallApp(githubUrl) ==
    /\ nreq < MaxAdmissionSteps
    /\ SetWorld(uninstallGithubApp(World, githubUrl).w)
    /\ nreq' = nreq + 1
    /\ UNCHANGED <<reply, lastReq, submitted, solo, shared, authVars, svcRet, inflight,
                   keyVars, probeVars, loaderVars, admissionVars, sandboxVars>>

AdmissionNext ==
    \/ \E candidate \in LocalCandidates : LoadApps(candidate)
    \/ RefreshApps
    \/ \E githubUrl \in AdmissionUrls, candidate \in RemoteCandidates :
          InstallApp(githubUrl, candidate)
    \/ \E githubUrl \in AdmissionUrls : UninstallApp(githubUrl)

SpecAdmission == Init /\ [][AdmissionNext]_vars

(***************************************************************************)
(* SpecLimits: one app loaded from GitHub writes through the storages of   *)
(* its facade; time passes, and after the lifetime of the loader's cache   *)
(* the app is loaded again.                                                *)
(***************************************************************************)
MaxLimitSteps == 53

\* loadAppFromGithub: a cached app is used for less than an hour
CacheLifetime == 3600000

\* the app whose facade is used, and the storages it asks for
LimitApp == GithubAppId(parseGithubUrl(AppUrl))
LimitScopes == {[kind |-> "storage", name |-> ""], [kind |-> "user", name |-> "u1"]}

\* the instants at which something happens
LimitInstants == {0, CacheLifetime}

\* admitted after one more call of op reached the storage at time at
CountOf(op, at) ==
    IF \E e \in admitted : e.op = op /\ e.at = at
    THEN (CHOOSE e \in admitted : e.op = op /\ e.at = at).count
    ELSE 0

Admit(op, at) ==
    {e \in admitted : ~(e.op = op /\ e.at = at)}
    \cup {[op |-> op, at |-> at, count |-> CountOf(op, at) + 1]}

\* storage.setData("k", "v") through the storage of scope
LimitedSet(scope) ==
    /\ nreq < MaxLimitSteps
    /\ \E namespace \in {ScopeNamespace(scope)} :
       \E done \in {SecureSetData(kvStore, rateLimits[LimitApp], LimitApp, namespace,
                                  "k", "v", clock)} :
          /\ kvStore' = done.store
          /\ kvWriter' = [k \in DOMAIN done.store |->
                             IF done.ret /\ k = getKeyPrefix(LimitApp, namespace) \o "k"
                             THEN LimitApp ELSE kvWriter[k]]
          /\ rateLimits' = [rateLimits EXCEPT ![LimitApp] = done.state]
          /\ kvReply' = [op |-> "setData", appId |-> LimitApp, namespace |-> namespace,
                         key |-> "k",
                         storeKey |-> getKeyPrefix(LimitApp, namespace) \o "k",
                         ret |-> done.ret, found |-> Null]
          /\ admitted' = IF done.ret THEN Admit("setData", clock) ELSE admitted
    /\ nreq' = nreq + 1
    /\ UNCHANGED <<sessions, shellVars, authVars, svcRet, inflight, clock, probeVars,
                   loaderVars, profiles, lifecycle, loadedAt, sandboxVars>>

\* time passes up to a later instant
LimitTimePasses(instant) ==
    /\ nreq < MaxLimitSteps
    /\ instant > clock
    /\ clock' = instant
    /\ nreq' = nreq + 1
    /\ UNCHANGED <<sessions, shellVars, authVars, svcRet, inflight, kvStore, kvWriter,
                   rateLimits, kvReply, probeVars, loaderVars, admissionVars, sandboxVars>>

\* loadAppFromGithub when the cached app is an hour old: the app is loaded
\* again with a new rateLimitState, and its facade is made over that state
LoadAgain ==
    /\ nreq < MaxLimitSteps
    /\ ~(clock - loadedAt < CacheLifetime)
    /\ rateLimits' = [rateLimits EXCEPT ![LimitApp] = NewRateLimitState]
    /\ loadedAt' = clock
    /\ nreq' = nreq + 1
    /\ UNCHANGED <<sessions, shellVars, authVars, svcRet, inflight, kvStore, kvWriter,
                   clock, kvReply, probeVars, loaderVars, profiles, lifecycle, admitted,
                   sandboxVars>>

LimitsNext ==
    \/ \E scope \in LimitScopes : LimitedSet(scope)
    \/ \E instant \in LimitInstants : LimitTimePasses(instant)
    \/ LoadAgain

SpecLimits == Init /\ [][LimitsNext]_vars

(***************************************************************************)
(* SpecBurst: one app loaded from GitHub reads, writes and deletes through *)
(* the storage of its facade in quick succession.                          *)
(***************************************************************************)
MaxBurstSteps == 7

\* securityConfig.rateLimiting.burstWindow and maxBurstOperations
BurstWindow == 5 * 1000
MaxBurstOperations == [getData |-> 20, setData |-> 10, deleteData |-> 5]

\* the instants at which something happens
BurstInstants == {0, BurstWindow - 1, BurstWindow}

\* a call of op on the key "k" of the app's storage
BurstCall(op) ==
    /\ nreq < MaxBurstSteps
    /\ \E done \in {IF op = "getData"
                    THEN SecureGetData(kvStore, rateLimits[LimitApp], LimitApp, "", "k",
                                       clock)
                    ELSE IF op = "setData"
                    THEN SecureSetData(kvStore, rateLimits[LimitApp], LimitApp, "", "k",
                                       "v", clock)
                    ELSE SecureDeleteData(kvStore, rateLimits[LimitApp], LimitApp, "", "k",
                                          clock)} :
          /\ kvStore' = done.store
          /\ kvWriter' = [k \in DOMAIN done.store |-> LimitApp]
          /\ rateLimits' = [rateLimits EXCEPT ![LimitApp] = done.state]
          /\ kvReply' = [op |-> op, appId |-> LimitApp, namespace |-> "", key |-> "k",
                         storeKey |-> getKeyPrefix(LimitApp, "") \o "k",
                         ret |-> done.ret, found |-> Null]
          /\ admitted' = IF checkRateLimit(rateLimits[LimitApp], op, clock).ok
                         THEN Admit(op, clock) ELSE admitted
    /\ nreq' = nreq + 1
    /\ UNCHANGED <<sessions, shellVars, authVars, svcRet, inflight, clock, probeVars,
                   loaderVars, profiles, lifecycle, loadedAt, sandboxVars>>

BurstNext ==
    \/ \E op \in DOMAIN OperationLimits : BurstCall(op)
    \/ \E instant \in BurstInstants : LimitTimePasses(instant)

SpecBurst == Init /\ [][BurstNext]_vars

(***************************************************************************)
(* SpecCommands: one client installs the GitHub app, enters it and sends   *)
(* commands to it while time passes; the wrapper of the app checks the     *)
(* rate limit of every command.                                            *)
(***************************************************************************)
MaxCommandSteps == 11

\* securityConfig.rateLimiting: operations.commandExecution, cooldownPeriod
CommandLimit == 30
CooldownPeriod == 30 * 1000

\* the instants at which something happens
CommandInstants == {0, BurstWindow, TimeWindow}

\* the timestamps counted for an operation; none before its first check
TimestampsOf(rateLimitState, operation) ==
    IF operation \in DOMAIN rateLimitState.operations
    THEN rateLimitState.operations[operation] ELSE <<>>

\* rateLimitState.operations[operation] = timestamps
WithTimestamps(rateLimitState, operation, timestamps) ==
    [o \in DOMAIN rateLimitState.operations \cup {operation} |->
        IF o = operation THEN timestamps ELSE rateLimitState.operations[o]]

\* the module-level checkRateLimit(rateLimitState, operation) at time now,
\* for an operation with the per-minute limit limit and no entry in
\* maxBurstOperations: the burst cap is Math.floor(limit / 5)
checkOperationRateLimit(rateLimitState, operation, limit, now) ==
    LET inWindow(timestamp) == now - timestamp < TimeWindow
        inBurst(timestamp) == now - timestamp < BurstWindow
        check(kept) ==
            IF Len(kept) >= limit
            THEN [ok |-> FALSE,
                  state |-> [operations |-> WithTimestamps(rateLimitState, operation, kept),
                             lastWarning |->
                                 IF now - rateLimitState.lastWarning > TimeWindow
                                 THEN now ELSE rateLimitState.lastWarning]]
            ELSE IF Len(SelectSeq(kept, inBurst)) >= limit \div 5
            THEN [ok |-> FALSE,
                  state |-> [operations |-> WithTimestamps(rateLimitState, operation, kept),
                             lastWarning |->
                                 IF now - rateLimitState.lastWarning > BurstWindow
                                 THEN now ELSE rateLimitState.lastWarning]]
            ELSE [ok |-> TRUE,
                  state |-> [operations |->
                                 WithTimestamps(rateLimitState, operation,
                                                Append(kept, now)),
                             lastWarning |-> rateLimitState.lastWarning]]
    IN  check(SelectSeq(TimestampsOf(rateLimitState, operation), inWindow))

\* the environment of a command: the rate-limit check decides env.limited
CommandEnv(limited) == Env("none", "none", "none", "none", "ok", FALSE, limited, "same")

\* the client installs the app, selects it in the main menu, and then sends
\* commands to it
NextCommand ==
    IF ~HasApp(appRegistry, LimitApp) THEN "install github " \o AppUrl
    ELSE IF AreaOf(sessions, SoloKey) = "main" THEN "4"
    ELSE AppCommand

\* one command request; when the Shell hands the command to the wrapper of
\* the app, the wrapper checks the rate limit
LimitedCommand ==
    /\ nreq < MaxCommandSteps
    /\ \E checked \in {checkOperationRateLimit(rateLimits[LimitApp], "commandExecution",
                                               CommandLimit, clock)} :
          /\ CommandRequest(SoloKey, NextCommand, CommandEnv(~checked.ok))
          /\ Probe(CommandEnv(~checked.ok))
          /\ rateLimits' = IF reply'.call.consulted /\ reply'.call.app = LimitApp
                           THEN [rateLimits EXCEPT ![LimitApp] = checked.state]
                           ELSE rateLimits
          /\ admitted' = IF reply'.call.consulted /\ reply'.call.app = LimitApp
                         THEN Admit(IF checked.ok THEN "commandExecution" ELSE "refused",
                                    clock)
                         ELSE admitted
    /\ UNCHANGED <<solo, shared, authVars, svcRet, inflight, kvStore, kvWriter, clock,
                   kvReply, loaderVars, profiles, lifecycle, loadedAt, sandboxVars>>

\* time passes up to a later instant
CommandTimePasses(instant) ==
    /\ nreq < MaxCommandSteps
    /\ instant > clock
    /\ clock' = instant
    /\ lastReq' = [lastReq EXCEPT !.op = "time"]
    /\ nreq' = nreq + 1
    /\ UNCHANGED <<sessions, appRegistry, installedGithubApps, githubApps, reply, submitted,
                   solo, shared, authVars, svcRet, inflight, kvStore, kvWriter, rateLimits,
                   kvReply, probeVars, loaderVars, admissionVars, sandboxVars>>

CommandsNext ==
    \/ LimitedCommand
    \/ \E instant \in CommandInstants : CommandTimePasses(instant)

SpecCommands == Init /\ [][CommandsNext]_vars

(***************************************************************************)
(* SpecView: one client installs the GitHub app, enters it and sends it    *)
(* commands; the code of the app assigns to a field of the session object  *)
(* it is handed, or leaves it alone.                                       *)
(***************************************************************************)
MaxViewRequests == 4

\* the fields of its session argument the code of the app assigns to
AppWrites == {"none"} \cup DOMAIN AppValues

\* the environment of a request in which the app assigns to field write
ViewEnv(appOut, write) == [RemoteEnv("ok", appOut) EXCEPT !.appWrite = write]

\* the code of the app runs only for the forwarded command
ViewCommand(command, appOut, write) ==
    /\ nreq < MaxViewRequests
    /\ (appOut # "same" \/ write # "none") => command = AppCommand
    /\ CommandRequest(SoloKey, command, ViewEnv(appOut, write))
    /\ Probe(ViewEnv(appOut, write))
    /\ UNCHANGED <<solo, shared, authVars, svcRet, inflight, keyVars,
                   loaderVars, admissionVars, sandboxVars>>

ViewNext ==
    \E command \in RemoteSessionCommands, appOut \in {"same", "page"},
       write \in AppWrites :
        ViewCommand(command, appOut, write)

SpecView == Init /\ [][ViewNext]_vars

(***************************************************************************)
(* SpecSandbox: the code of a remote app executes: once in the isolate     *)
(* when the app is loaded, then in the wrapper's getWelcomeScreen,         *)
(* getHelp, handleCommand and onInit.  The code returns when it chooses    *)
(* to, or not at all; time passes while it executes.                       *)
(***************************************************************************)
MaxSandboxRuns == 4

\* elapsed stops being counted after this many steps of the clock
MaxSandboxTicks == 3

\* securityConfig.sandbox.timeoutMs
TimeoutMs == 5000

\* the step of the clock
SandboxTick == TimeoutMs \div 2

\* the entry points of the wrapper that call the code of the app
WrapperEntries == {"getWelcomeScreen", "getHelp", "handleCommand", "onInit"}

Ended(outcome) == [entry |-> "none", url |-> "", outcome |-> outcome]

\* installGithubApp up to script.run(context, { timeout })
StartLoad(githubUrl) ==
    /\ nreq < MaxSandboxRuns
    /\ running.entry = "none"
    /\ running' = [entry |-> "load", url |-> githubUrl, outcome |-> "none"]
    /\ elapsed' = 0
    /\ nreq' = nreq + 1
    /\ UNCHANGED <<sessions, shellVars, authVars, svcRet, inflight, keyVars, probeVars,
                   loaderVars, admissionVars>>

\* script.run returns before the timeout: the rest of installGithubApp
FinishLoad ==
    /\ running.entry = "load"
    /\ elapsed < TimeoutMs
    /\ \E done \in {installGithubApp(World, running.url, LoaderEnv("ok", FALSE))} :
          SetWorld(done.w)
    /\ running' = Ended("loaded")
    /\ UNCHANGED <<reply, lastReq, submitted, nreq, solo, shared, authVars, svcRet,
                   inflight, keyVars, probeVars, loaderVars, admissionVars, elapsed>>

\* script.run throws at the timeout: executeSandboxedApp returns null and so
\* do loadAppFromGithub and installGithubApp
AbortLoad ==
    /\ running.entry = "load"
    /\ elapsed >= TimeoutMs
    /\ \E done \in {installGithubApp(World, running.url, LoaderEnv("fail", FALSE))} :
          SetWorld(done.w)
    /\ running' = Ended("rejected")
    /\ UNCHANGED <<reply, lastReq, submitted, nreq, solo, shared, authVars, svcRet,
                   inflight, keyVars, probeVars, loaderVars, admissionVars, elapsed>>

\* the wrapper of a registered remote app calls the code of the app
StartCall(entry, index) ==
    /\ nreq < MaxSandboxRuns
    /\ running.entry = "none"
    /\ index \in 1..Len(appRegistry)
    /\ appRegistry[index].source # Undefined
    /\ running' = [entry |-> entry, url |-> appRegistry[index].source,
                   outcome |-> "none"]
    /\ elapsed' = 0
    /\ nreq' = nreq + 1
    /\ UNCHANGED <<sessions, shellVars, authVars, svcRet, inflight, keyVars, probeVars,
                   loaderVars, admissionVars>>

\* the code of the app returns to the wrapper
FinishCall ==
    /\ running.entry \in WrapperEntries
    /\ running' = Ended("returned")
    /\ UNCHANGED <<sessions, shellVars, authVars, svcRet, inflight, keyVars, probeVars,
                   loaderVars, admissionVars, nreq, elapsed>>

\* time passes while the code executes; the isolate stops the load at the
\* timeout, nothing stops a call of the wrapper
SandboxTimePasses ==
    /\ running.entry # "none"
    /\ running.entry = "load" => elapsed < TimeoutMs
    /\ elapsed < MaxSandboxTicks * SandboxTick
    /\ elapsed' = elapsed + SandboxTick
    /\ UNCHANGED <<sessions, shellVars, authVars, svcRet, inflight, keyVars, probeVars,
                   loaderVars, admissionVars, nreq, running>>

SandboxNext ==
    \/ \E githubUrl \in FacadeUrls : StartLoad(githubUrl)
    \/ FinishLoad
    \/ AbortLoad
    \/ \E entry \in WrapperEntries, index \in 1..5 : StartCall(entry, index)
    \/ FinishCall
    \/ SandboxTimePasses

SpecSandbox == Init /\ [][SandboxNext]_vars

(***************************************************************************)
(* SpecData: apps update sessions through their DataService.               *)
(***************************************************************************)
MaxDataCalls == 3

\* the object an app keeps in its namespace of session.data, {} when absent
OwnData(data, appId) == IF appId \in DOMAIN data THEN data[appId] ELSE EmptyData

\* DataService.updateSession of the service of app appId.  updates is
\* [currentArea, data] in the convention of NoUpdates.  session.data is a
\* Mixed path changed in place: mixedSaved says whether save() writes it.
DataUpdateSession(ss, appId, sessionId, updates, mixedSaved) ==
    LET saved(doc, data) ==
            [ss |-> [ss EXCEPT ![sessionId] =
                        [doc EXCEPT !.data = IF mixedSaved THEN data ELSE ss[sessionId].data]],
             ret |-> SessionObject(sessionId, [doc EXCEPT !.data = data])]
        merge(doc) ==
            saved(doc,
                  IF updates.data # <<>>
                  THEN Spread(doc.data,
                              [a \in {appId} |->
                                  Spread(OwnData(doc.data, appId),
                                         OwnData(updates.data[1], appId))])
                  ELSE doc.data)
        move(doc) ==
            merge(IF ~Falsy(updates.currentArea)
                  THEN [doc EXCEPT !.currentArea = updates.currentArea] ELSE doc)
    IN  IF sessionId \notin DOMAIN ss THEN [ss |-> ss, ret |-> NoSession]
        ELSE move(ss[sessionId])

DataApps == {"appA", "appB"}

\* the updates apps ask for: data of their own, data under the name of the
\* other app, an area, and data with an area
DataUpdates ==
    {[currentArea |-> area, data |-> data] :
        area \in {Undefined, "appB:home"},
        data \in {<<>>, <<[appA |-> [x |-> "1"]]>>, <<[appB |-> [y |-> "2"]]>>,
                  <<[appA |-> [z |-> "3"]]>>}}

\* a client opens its session
DataOpen(k) ==
    /\ k \notin DOMAIN sessions
    /\ sessions' = createSession(sessions, k, "none").ss
    /\ svcRet' = [NoServiceCall EXCEPT !.op = "create", !.sessionId = k]
    /\ UNCHANGED <<shellVars, authVars, inflight, keyVars, probeVars, nreq,
                   loaderVars, admissionVars, sandboxVars>>

\* an app updates a session through its DataService
DataUpdate(appId, k, updates, mixedSaved) ==
    /\ nreq < MaxDataCalls
    /\ \E done \in {DataUpdateSession(sessions, appId, k, updates, mixedSaved)} :
          /\ sessions' = done.ss
          /\ svcRet' = [NoServiceCall EXCEPT !.op = "dataUpdate", !.sessionId = k,
                                             !.area = appId,
                                             !.ok = done.ret.sessionId # Null,
                                             !.session = done.ret]
    /\ nreq' = nreq + 1
    /\ UNCHANGED <<shellVars, authVars, inflight, keyVars, probeVars,
                   loaderVars, admissionVars, sandboxVars>>

DataNext ==
    \/ \E k \in Keys : DataOpen(k)
    \/ \E appId \in DataApps, k \in Keys, updates \in DataUpdates,
          mixedSaved \in BOOLEAN :
          DataUpdate(appId, k, updates, mixedSaved)

SpecData == Init /\ [][DataNext]_vars

(***************************************************************************)
(* SpecTracked: the host installs and uninstalls URLs of one repository:  *)
(* two that differ in the branch and one of a directory of it; the         *)
(* loader's cache is fresh or stale as time decides.                       *)
(***************************************************************************)
MaxTrackedSteps == 4

BranchUrl == AppUrl \o "/tree/dev"
PathUrl == AppUrl \o "/tree/main/x"
TrackedUrls == {AppUrl, BranchUrl, PathUrl}

\* installGithubApp(githubUrl), the repository loads
TrackedInstall(githubUrl, cacheFresh) ==
    /\ nreq < MaxTrackedSteps
    /\ cacheFresh => GithubAppId(parseGithubUrl(githubUrl)) \in DOMAIN githubApps
    /\ \E done \in {installGithubApp(World, githubUrl, LoaderEnv("ok", cacheFresh))} :
          /\ SetWorld(done.w)
          /\ svcRet' = [NoServiceCall EXCEPT !.op = "install", !.area = githubUrl,
                                             !.ok = done.ret.id # Null]
    /\ nreq' = nreq + 1
    /\ UNCHANGED <<reply, lastReq, submitted, solo, shared, authVars, inflight, keyVars,
                   probeVars, loaderVars, admissionVars, sandboxVars>>

\* uninstallGithubApp(githubUrl)
TrackedUninstall(githubUrl) ==
    /\ nreq < MaxTrackedSteps
    /\ \E done \in {uninstallGithubApp(World, githubUrl)} :
          /\ SetWorld(done.w)
          /\ svcRet' = [NoServiceCall EXCEPT !.op = "uninstall", !.area = githubUrl,
                                             !.ok = done.ret]
    /\ nreq' = nreq + 1
    /\ UNCHANGED <<reply, lastReq, submitted, solo, shared, authVars, inflight, keyVars,
                   probeVars, loaderVars, admissionVars, sandboxVars>>

TrackedNext ==
    \/ \E githubUrl \in TrackedUrls, cacheFresh \in BOOLEAN :
          TrackedInstall(githubUrl, cacheFresh)
    \/ \E githubUrl \in TrackedUrls : TrackedUninstall(githubUrl)

SpecTracked == Init /\ [][TrackedNext]_vars

(***************************************************************************)
(* SpecWrites: two callers write to one session at the same time through   *)
(* updateSession and addToHistory.  A call gives way to the other one      *)
(* between its Session.findOne and its updateOne.                          *)
(***************************************************************************)
MaxWriteSteps == 4

\* what the callers write: an area, a user binding, a command
WriteKinds == {"area", "user", "append"}

WrittenArea == "hangman:home"
WrittenUser == [userId |-> "u1", username |-> "alice"]
WrittenCommand == "go"

\* the updates of the two updateSession calls
UpdatesOf(kind) ==
    IF kind = "area" THEN [NoUpdates EXCEPT !.currentArea = WrittenArea]
    ELSE [NoUpdates EXCEPT !.userId = WrittenUser.userId,
                           !.username = WrittenUser.username]

\* what a step of a call leaves alone
WriteFrame ==
    UNCHANGED <<shellVars, authVars, svcRet, keyVars, probeVars, loaderVars,
                admissionVars, sandboxVars>>

\* updateSession and addToHistory up to the end of Session.findOne and the
\* changes made to the document that was read; the callers write different
\* fields
WriteFind(r, kind) ==
    /\ nreq < MaxWriteSteps
    /\ inflight[r].pc \in {"idle", "done"}
    /\ SoloKey \in DOMAIN sessions
    /\ \A other \in Requests \ {r} : inflight[other].command # kind
    /\ inflight' =
          [inflight EXCEPT ![r] =
              [IdleRequest EXCEPT
                  !.pc = "read", !.sessionId = SoloKey, !.command = kind,
                  !.session =
                      IF kind = "append"
                      THEN [sessions[SoloKey] EXCEPT
                               !.commandHistory = PushHistory(@, WrittenCommand)]
                      ELSE ApplyUpdates(sessions[SoloKey], UpdatesOf(kind))]]
    /\ nreq' = nreq + 1
    /\ UNCHANGED sessions
    /\ WriteFrame

\* Session.collection.updateOne: updateSession sets currentArea,
\* commandHistory, data, userId and username of the document it read,
\* addToHistory sets commandHistory
WriteBack(r) ==
    /\ inflight[r].pc = "read"
    /\ sessions' =
          IF inflight[r].command = "append"
          THEN [sessions EXCEPT ![SoloKey].commandHistory =
                                    inflight[r].session.commandHistory]
          ELSE [sessions EXCEPT ![SoloKey] = inflight[r].session]
    /\ inflight' = [inflight EXCEPT ![r].pc = "done"]
    /\ UNCHANGED nreq
    /\ WriteFrame

WritesNext ==
    \/ DataOpen(SoloKey)
    \/ \E r \in Requests, kind \in WriteKinds : WriteFind(r, kind)
    \/ \E r \in Requests : WriteBack(r)

SpecWrites == Init /\ [][WritesNext]_vars

(***************************************************************************)
(* SpecRebuild: the host installs URLs of one repository, with and without *)
(* a branch and a directory, and reloads its registry; the refresh loads   *)
(* every cached app again from the URL it rebuilds.                        *)
(***************************************************************************)
BranchPathUrl == AppUrl \o "/tree/dev/x"
RebuildUrls == TrackedUrls \cup {BranchPathUrl}

RebuildNext ==
    \/ \E githubUrl \in RebuildUrls, cacheFresh \in BOOLEAN :
          TrackedInstall(githubUrl, cacheFresh)
    \/ Reload
    \/ \E load \in {"ok", "updated", "fail"}, cacheFresh \in BOOLEAN :
          RefreshDone(load, cacheFresh)

SpecRebuild == Init /\ [][RebuildNext]_vars

(***************************************************************************)
(* SpecShown: one client installs a remote app, enters it and sends it     *)
(* commands; the code of the app answers with its screen or with a screen  *)
(* whose name holds a colon, and may assign to session.currentArea the     *)
(* area of the screen it was called with.                                  *)
(***************************************************************************)
ShownCommand(command, appOut, write) ==
    /\ nreq < MaxViewRequests
    /\ (appOut # "same" \/ write # "none") => command = AppCommand
    /\ CommandRequest(SoloKey, command, ViewEnv(appOut, write))
    /\ Probe(ViewEnv(appOut, write))
    /\ UNCHANGED <<solo, shared, authVars, svcRet, inflight, keyVars,
                   loaderVars, admissionVars, sandboxVars>>

ShownNext ==
    \E command \in RemoteSessionCommands, appOut \in {"same", "a:b", "page"},
       write \in {"none", "shownArea"} :
        ShownCommand(command, appOut, write)

SpecShown == Init /\ [][ShownNext]_vars

(***************************************************************************)
(* SpecScopes: the code of one remote app uses the three storages its      *)
(* services hand out: storage, getUserStorage(userId) and                  *)
(* getNamespacedStorage(namespace).  svcRet records the scope of the last  *)
(* call and, for every store key, the scope the value was written         *)
(* through.                                                                *)
(***************************************************************************)
MaxScopeCalls == 3

\* the app whose code makes the calls
ScopeApp == GithubAppId(parseGithubUrl(AppUrl))

\* the storages the app asks for
ScopeChoices ==
    {[kind |-> "storage", name |-> ""], [kind |-> "user", name |-> "u1"],
     [kind |-> "namespaced", name |-> "user_u1"], [kind |-> "namespaced", name |-> "ns"]}

ScopeKeys == {"k", "ns_k"}

NoScope == [kind |-> "none", name |-> ""]

\* the scope each stored value was written through
ScopeWriters == IF svcRet.op = "scoped" THEN svcRet.writers ELSE <<>>

\* a call through the storage of scope at the store key storeKey
ScopedCall(op, scope, key, storeKey, done) ==
    /\ nreq < MaxScopeCalls
    /\ kvStore' = done.store
    /\ kvWriter' =
          [k \in DOMAIN done.store |->
              IF op = "setData" /\ done.ret /\ k = storeKey THEN ScopeApp
              ELSE kvWriter[k]]
    /\ rateLimits' = [rateLimits EXCEPT ![ScopeApp] = done.state]
    /\ kvReply' =
          [op |-> op, appId |-> ScopeApp, namespace |-> ScopeNamespace(scope),
           key |-> key, storeKey |-> storeKey, ret |-> done.ret,
           found |-> IF storeKey \in DOMAIN kvStore THEN ScopeApp ELSE Null]
    /\ svcRet' =
          [op |-> "scoped", scope |-> scope,
           found |-> IF storeKey \in DOMAIN kvStore THEN ScopeWriters[storeKey]
                     ELSE NoScope,
           writers |->
              [k \in DOMAIN done.store |->
                  IF op = "setData" /\ done.ret /\ k = storeKey THEN scope
                  ELSE ScopeWriters[k]]]
    /\ nreq' = nreq + 1
    /\ UNCHANGED <<sessions, shellVars, authVars, inflight, clock, probeVars,
                   loaderVars, admissionVars, sandboxVars>>

ScopedGet(scope, key) ==
    \E namespace \in {ScopeNamespace(scope)} :
        \E done \in {SecureGetData(kvStore, rateLimits[ScopeApp], ScopeApp, namespace,
                                   key, clock)} :
            ScopedCall("getData", scope, key, getKeyPrefix(ScopeApp, namespace) \o key,
                       done)

ScopedSet(scope, key) ==
    \E namespace \in {ScopeNamespace(scope)} :
        \E done \in {SecureSetData(kvStore, rateLimits[ScopeApp], ScopeApp, namespace,
                                   key, "v", clock)} :
            ScopedCall("setData", scope, key, getKeyPrefix(ScopeApp, namespace) \o key,
                       done)

ScopedDelete(scope, key) ==
    \E namespace \in {ScopeNamespace(scope)} :
        \E done \in {SecureDeleteData(kvStore, rateLimits[ScopeApp], ScopeApp, namespace,
                                      key, clock)} :
            ScopedCall("deleteData", scope, key,
                       getKeyPrefix(ScopeApp, namespace) \o key, done)

ScopesNext ==
    \/ \E scope \in ScopeChoices, key \in ScopeKeys : ScopedGet(scope, key)
    \/ \E scope \in ScopeChoices, key \in ScopeKeys : ScopedSet(scope, key)
    \/ \E scope \in ScopeChoices, key \in ScopeKeys : ScopedDelete(scope, key)

SpecScopes == Init /\ [][ScopesNext]_vars

(***************************************************************************)
(* SpecInit: clients of two sessions send commands and load the terminal   *)
(* page, which asks GET /terminal/init with the session key it has stored  *)
(* or with none.  The Store is reliable.                                   *)
(***************************************************************************)
MaxInitRequests == 3

\* generateWelcomeScreen() and generateSimplifiedWelcomeScreen()
generateWelcomeScreen == "WELCOME TO THE GARETTY'S BBS SYSTEM!\nMAIN MENU:"
generateSimplifiedWelcomeScreen == "GARETTY'S BBS SYSTEM\nMAIN MENU:"

\* the keys uuidv4 gives to sessions created without one
GeneratedKeys == <<"uuid1", "uuid2", "uuid3">>

RECURSIVE FirstUnused(_, _)
FirstUnused(ss, index) ==
    IF index >= Len(GeneratedKeys) \/ GeneratedKeys[index] \notin DOMAIN ss
    THEN GeneratedKeys[index]
    ELSE FirstUnused(ss, index + 1)

\* GET of terminal/init; sessionId is "" when the query has none
InitGET(ss, sessionId, simplified, fGet) ==
    LET answer(made) ==
            [ss |-> made.ss,
             reply |-> [status |-> 200, sessionId |-> made.ret.sessionId,
                        currentArea |-> "main",
                        defaultWelcomeText |-> IF simplified
                                               THEN generateSimplifiedWelcomeScreen
                                               ELSE generateWelcomeScreen,
                        fullWelcomeText |-> generateWelcomeScreen,
                        simpleWelcomeText |-> generateSimplifiedWelcomeScreen]]
        open(got) ==
            answer(IF got.ret.sessionId = Null
                   THEN createSession(got.ss, sessionId, fGet) ELSE got)
    IN  IF ~Falsy(sessionId)
        THEN open(getSession(ss, sessionId, fGet))
        ELSE answer(createSession(ss, FirstUnused(ss, 1), fGet))

\* fetchWelcomeScreen of the terminal page: the session the client keeps
ClientSession(data, existingSessionId) ==
    [sessionId |-> IF Falsy(data.sessionId) THEN existingSessionId ELSE data.sessionId,
     currentArea |-> IF Falsy(data.currentArea) THEN "main" ELSE data.currentArea]

InitCommand(k, command) ==
    /\ nreq < MaxInitRequests
    /\ CommandRequest(k, command, QuietEnv)
    /\ UNCHANGED <<solo, shared, authVars, svcRet, inflight, keyVars, probeVars,
                   loaderVars, admissionVars, sandboxVars>>

\* one request to GET /terminal/init, processed to its end
InitRequest(sessionId, simplified) ==
    /\ nreq < MaxInitRequests
    /\ \E done \in {InitGET(sessions, sessionId, simplified, "none")} :
          /\ sessions' = done.ss
          /\ reply' = done.reply
          /\ lastReq' = [op |-> "init", sessionId |-> sessionId, command |-> "",
                         areaBefore |-> AreaOf(sessions, sessionId),
                         appsBefore |-> appRegistry,
                         sessionsBefore |-> sessions]
    /\ nreq' = nreq + 1
    /\ UNCHANGED <<appRegistry, installedGithubApps, githubApps, submitted,
                   solo, shared, authVars, svcRet, inflight, keyVars, probeVars,
                   loaderVars, admissionVars, sandboxVars>>

InitNext ==
    \/ \E k \in Keys, command \in ShellCommands : InitCommand(k, command)
    \/ \E sessionId \in Keys \cup {""}, simplified \in BOOLEAN :
          InitRequest(sessionId, simplified)

SpecInit == Init /\ [][InitNext]_vars

(***************************************************************************)
(* Properties                                                              *)
(***************************************************************************)
\* a numeric token: one or more decimal digits and nothing else
IsNumericToken(cmd) ==
    /\ Len(cmd) > 0
    /\ \A i \in 1..Len(cmd) : IndexOfChar(DecDigits, CharAt(cmd, i)) # 0

\* the last request was a command that was answered with success
Answered == lastReq.op = "command" /\ reply.status = 200

PersistedArea(k) == AreaOf(sessions, k)

\* the last n elements of a sequence, oldest first (all of it when shorter)
LastN(seq, n) == IF Len(seq) <= n THEN seq ELSE SubSeq(seq, Len(seq) - n + 1, Len(seq))

\* the persisted commandHistory of a key; empty when no session is stored
PersistedHistory(k) == IF k \in DOMAIN sessions THEN sessions[k].commandHistory ELSE <<>>

\* C1: after the commands c1..cn of a session were processed one request
\* after another, its persisted commandHistory is the last min(n, 100) of
\* them, oldest first, each as it was submitted.
C1_HistoryIsTail ==
    \A k \in Keys : PersistedHistory(k) = LastN(submitted[k], HistoryLimit)

\* more than 100 commands were processed and the oldest ones were dropped
C1_Witness ==
    /\ Len(submitted["k1"]) > HistoryLimit
    /\ Len(PersistedHistory("k1")) = HistoryLimit
    /\ PersistedHistory("k1")[HistoryLimit] = lastReq.command
    /\ PersistedHistory("k1")[1] # submitted["k1"][1]

\* C2: after logout returned success on a session bound to a user, the
\* persisted session has no userId and no username, and the next me reports
\* isLoggedIn = false.
C2_LogoutClearsUser ==
    (authReply.op = "logout" /\ authReply.reply.success /\ authReply.wasBound)
    => /\ sessions[authReply.sessionId].userId = Undefined
       /\ sessions[authReply.sessionId].username = Undefined
       /\ ~MeGET(sessions, users, authReply.sessionId).reply.isLoggedIn

\* how often a command occurs in a history
Occurrences(history, command) ==
    Cardinality({i \in 1..Len(history) : history[i] = command})

\* C3: two command requests for the same session key that are in flight at
\* the same time are serialized: once both are done, each of the two
\* commands is in the persisted commandHistory exactly once.
C3_BothCommandsPersisted ==
    (/\ inflight["r1"].pc = "done"
     /\ inflight["r2"].pc = "done"
     /\ inflight["r1"].sessionId = inflight["r2"].sessionId)
    => \A r \in Requests :
          Occurrences(PersistedHistory(inflight[r].sessionId), inflight[r].command) = 1

\* C6: in every reachable state the persisted commandHistory of every
\* session has length at most 100.
C6_HistoryBounded ==
    \A k \in DOMAIN sessions : Len(sessions[k].commandHistory) <= HistoryLimit

\* C7: when set_current_area(k, a) reported success, the next get(k) returns
\* currentArea = a, also when the Store failed the write.
C7_SetAreaThenGet ==
    (svcRet.op = "setCurrentArea" /\ svcRet.ok)
    => getSession(sessions, svcRet.sessionId, "none").ret.currentArea = svcRet.area

\* the record a collection holds for a key, Null when it holds none
RecordOf(ss, k) == IF k \in DOMAIN ss THEN <<ss[k]>> ELSE <<>>

BackFromAppArea ==
    /\ Answered
    /\ Includes(lastReq.areaBefore, ":")
    /\ Normalized(lastReq.command) \in {"B", "BACK"}

\* the session is in main, the reply is the main menu with refresh, and no
\* app was consulted
WentBackToMain ==
    /\ PersistedArea(lastReq.sessionId) = "main"
    /\ reply.area = "main"
    /\ reply.response = generateMainMenu(appRegistry)
    /\ reply.refresh
    /\ ~reply.call.consulted

\* C10, as claimed: from every area <appId>:<screenId>, B or BACK moves the
\* session to main with the main menu and refresh, without consulting the app.
C10_BackFromAnyAppArea == BackFromAppArea => WentBackToMain

\* B or BACK does so when the app of the area is registered at the time of
\* the command.
BackFromRegisteredApp ==
    (BackFromAppArea /\ HasApp(lastReq.appsBefore, parseAreaString(lastReq.areaBefore)[1]))
    => WentBackToMain

\* C8: in area main with K apps a non-universal command selects an app
\* exactly when it is a numeric token N with 1 <= N <= K; the session then
\* is in <N-th app id>:home and the reply has screen home, refresh true and
\* the app's welcome screen; any other command leaves the area main.
C8_MainMenuSelection ==
    (Answered /\ lastReq.areaBefore = "main"
        /\ ~IsUniversal(Normalized(lastReq.command)))
    => LET cmd == Normalized(lastReq.command)
           apps == lastReq.appsBefore
           selects == IsNumericToken(cmd) /\ ParseInt(cmd).val >= 1
                        /\ ParseInt(cmd).val <= Len(apps)
       IN  IF selects
           THEN /\ PersistedArea(lastReq.sessionId) = apps[ParseInt(cmd).val].id \o ":home"
                /\ reply.area = apps[ParseInt(cmd).val].id \o ":home"
                /\ reply.screen = "home"
                /\ reply.refresh
                /\ reply.response = WelcomeScreen(apps[ParseInt(cmd).val])
           ELSE /\ PersistedArea(lastReq.sessionId) = "main"
                /\ reply.area = "main"

\* C9: when a command is forwarded to the app, the returned screen fixes
\* the next area: the current screen -> the area is unchanged; another
\* string s -> <appId>:s; null -> main, with the main menu and refresh.
C9_AreaFollowsReturnedScreen ==
    (Answered /\ reply.call.consulted)
    => LET k == lastReq.sessionId
           returned == reply.call.returned
       IN  /\ returned = reply.call.screenId => PersistedArea(k) = lastReq.areaBefore
           /\ (returned # reply.call.screenId /\ returned # Null)
                 => PersistedArea(k) = reply.call.app \o ":" \o returned
           /\ returned = Null
                 => /\ PersistedArea(k) = "main"
                    /\ reply.response = generateMainMenu(appRegistry)
                    /\ reply.refresh

\* C5: a facade call of an app never reads, replaces or deletes a document
\* that the facade of another app wrote: the store keys of distinct apps
\* never coincide.
C5_NameIsolation ==
    kvReply.found # Null => kvReply.found = kvReply.appId

\* C11: from every session state, also in the area of an app that was
\* uninstalled, MAIN or MENU leaves the persisted currentArea main and
\* replies with the main menu and refresh = true.
C11_MenuReachesMain ==
    (lastReq.op = "command" /\ lastReq.command \in MenuCommands)
    => /\ reply.status = 200
       /\ PersistedArea(lastReq.sessionId) = "main"
       /\ reply.area = "main"
       /\ reply.response = generateMainMenu(lastReq.appsBefore)
       /\ reply.refresh

\* the session was in the area of the GitHub app, the app was uninstalled,
\* and menu brought the session to main
C11_Witness ==
    /\ lastReq.command = "menu"
    /\ lastReq.areaBefore = GithubAppId(parseGithubUrl(AppUrl)) \o ":home"
    /\ ~HasApp(lastReq.appsBefore, GithubAppId(parseGithubUrl(AppUrl)))
    /\ PersistedArea(lastReq.sessionId) = "main"

C13_RawCommandForwarded ==
    (Answered /\ reply.call.consulted) => reply.call.command = lastReq.command

\* C14: the area the Shell persisted parses and renders back to itself: the
\* screen id handed to the app on the next command is the screen of the
\* persisted area, <appId>:<screenId> is that area.
C14_AreaRoundTrip ==
    (Answered /\ reply.call.consulted)
    => lastReq.areaBefore = reply.call.app \o ":" \o reply.call.screenId

\* the code of an app was called with the last command and threw
AppRaised ==
    /\ lastReq.op = "command"
    /\ lastEnv.appOut = "throw"
    /\ HasApp(lastWorld.appRegistry, parseAreaString(lastReq.areaBefore)[1])
    /\ AppOf(lastWorld.appRegistry, parseAreaString(lastReq.areaBefore)[1]).source
          # Undefined

\* C15: when the handleCommand of an app raises, the endpoint still replies
\* with success and an in-app error text, the persisted currentArea is
\* unchanged and the command is appended to the history.
C15_AppErrorContained ==
    AppRaised
    => /\ reply.status = 200
       /\ reply.response = "Error executing command. Please report this issue."
       /\ PersistedArea(lastReq.sessionId) = lastReq.areaBefore
       /\ PersistedHistory(lastReq.sessionId) =
             PushHistory(lastWorld.sessions[lastReq.sessionId].commandHistory,
                         lastReq.command)

\* C16: a command is all-or-nothing for the session: after an error reply
\* (5xx) the persisted currentArea and commandHistory are what they were
\* before the command; after a success reply the command is appended to the
\* persisted history and the persisted area is the area of the reply.
C16_AllOrNothing ==
    lastReq.op = "command"
    => LET k == lastReq.sessionId
           historyBefore == IF k \in DOMAIN lastWorld.sessions
                            THEN lastWorld.sessions[k].commandHistory ELSE <<>>
       IN  /\ reply.status >= 500
                => /\ PersistedArea(k) = lastReq.areaBefore
                   /\ PersistedHistory(k) = historyBefore
           /\ reply.status = 200
                => /\ PersistedHistory(k) = PushHistory(historyBefore, lastReq.command)
                   /\ PersistedArea(k) = reply.area

\* the last request was an install verb
InstallRequested ==
    lastReq.op = "command" /\ IsInstallVerb(Normalized(lastReq.command))

\* the reply of LIST GITHUB APPS in the current state
ListReply ==
    processCommand(World, "main", "LIST GITHUB APPS", NoSession, appRegistry,
                   QuietEnv).res.response

C18_UninstallSticks ==
    \A url \in removed :
        /\ FirstWithSource(appRegistry, url).id = Null
        /\ ~SeqContains(installedGithubApps, url)

\* C19: an install of a URL whose cached entry is less than an hour old
\* succeeds without a fetch: the cache is unchanged and the registry holds
\* the cached app.
C19_SecondInstallFromCache ==
    (/\ InstallRequested
     /\ lastReq.command = "install github " \o AppUrl
     /\ lastEnv.cacheFresh
     /\ GithubAppId(parseGithubUrl(AppUrl)) \in DOMAIN lastWorld.githubApps)
    => /\ StartsWith(reply.response, "Successfully installed")
       /\ githubApps = lastWorld.githubApps
       /\ HasApp(appRegistry, GithubAppId(parseGithubUrl(AppUrl)))
       /\ AppOf(appRegistry, GithubAppId(parseGithubUrl(AppUrl)))
             = lastWorld.githubApps[GithubAppId(parseGithubUrl(AppUrl))]
       /\ SeqContains(installedGithubApps, AppUrl)

\* the URL was uninstalled and is installed again from the cache while a
\* fetch would fail
C19_Witness ==
    /\ InstallRequested
    /\ lastEnv.cacheFresh
    /\ lastEnv.load = "fail"
    /\ ~SeqContains(lastWorld.installedGithubApps, AppUrl)
    /\ StartsWith(reply.response, "Successfully installed")

\* what the client sees of a reply
Seen(r) ==
    [status |-> r.status, screen |-> r.screen, area |-> r.area, response |-> r.response,
     refresh |-> r.refresh]

\* the reply of the split request had it run as a whole on the world its
\* dispatch found, with the registry apps
WholeReply(apps) ==
    Seen(CommandPOST([lastWorld EXCEPT !.appRegistry = apps], overlap.sessionId,
                     overlap.command, lastEnv).reply)

\* C20: a command whose dispatch overlaps a write of the registry answers
\* as a command that saw the registry before the write, or as one that saw
\* it after the write; it never mixes the two.
C20_OneRegistryVersion ==
    overlap.phase = "done"
    => Seen(reply) \in {WholeReply(overlap.apps), WholeReply(lastWorld.appRegistry)}

\* the whole validation policy, for the app registered under app.id
PassesPolicy(app) ==
    /\ profiles[app.id].typed
    /\ Len(app.id) <= MaxLengths.id
    /\ Len(app.name) <= MaxLengths.name
    /\ profiles[app.id].description <= MaxLengths.description
    /\ profiles[app.id].welcome <= MaxLengths.welcomeScreen
    /\ profiles[app.id].response <= MaxLengths.response

\* C21: every app of the registry, built-in, local or from GitHub, passes
\* the whole validation policy under the id it is registered with.
C21_RegistryValidated ==
    \A i \in 1..Len(appRegistry) : PassesPolicy(appRegistry[i])

\* C22: every registration of an app is followed by one call of its onInit
\* with the facade made for the app's id, and there is no other onInit call.
C22_InitOncePerRegistration ==
    /\ \A i \in 1..Len(lifecycle) :
          lifecycle[i].event = "register"
          => /\ i < Len(lifecycle)
             /\ lifecycle[i + 1] = Initialised(lifecycle[i].id, lifecycle[i].id)
    /\ \A i \in 1..Len(lifecycle) :
          lifecycle[i].event = "onInit"
          => i > 1 /\ lifecycle[i - 1] = Registered(lifecycle[i].id)

\* the number of calls of op that reached the storage in the window that
\* starts at from
RECURSIVE SumCounts(_)
SumCounts(entries) ==
    IF entries = {} THEN 0
    ELSE (CHOOSE e \in entries : TRUE).count
         + SumCounts(entries \ {CHOOSE e \in entries : TRUE})

AdmittedIn(op, from, length) ==
    SumCounts({e \in admitted : e.op = op /\ e.at >= from /\ e.at < from + length})

\* a step in which a facade call was refused
RefusedStep ==
    /\ nreq' # nreq
    /\ clock' = clock
    /\ loadedAt' = loadedAt
    /\ admitted' = admitted

\* C23: no window of 60 seconds holds more than 50 set operations of the
\* app that reached the storage, whatever storages of the facade they went
\* through, and a refused call returns failure and writes nothing.
C23_SetCap ==
    /\ [](\A e \in admitted :
              AdmittedIn("setData", e.at, TimeWindow) <= OperationLimits.setData)
    /\ [][RefusedStep => (kvStore' = kvStore /\ kvReply'.ret = FALSE)]_vars

\* C24: in no window of 5 seconds do more than 20 get, 10 set or 5 delete
\* operations of the app reach the storage.
C24_BurstCaps ==
    \A e \in admitted :
        AdmittedIn(e.op, e.at, BurstWindow) <= MaxBurstOperations[e.op]

\* the wrapper of the app refused the last command
CommandRefused ==
    /\ lastReq.op = "command"
    /\ reply.call.consulted
    /\ reply.call.app = LimitApp
    /\ reply.response = "Rate limit exceeded. Please try again later."

\* C25: a command to an app from GitHub is refused only when 30 commands
\* were let through in the last 60 seconds, however close they were; a
\* refused command leaves the area of the session as it was; and no window
\* of 60 seconds holds more than 30 commands that were let through.
C25_CommandCapOnly ==
    /\ CommandRefused
          => /\ AdmittedIn("commandExecution", clock - TimeWindow + 1, TimeWindow)
                   >= CommandLimit
             /\ AreaOf(sessions, SoloKey) = lastReq.areaBefore
    /\ \A e \in admitted :
          e.op = "commandExecution"
          => AdmittedIn("commandExecution", e.at, TimeWindow) <= CommandLimit

\* C26: for 30 seconds after a command of the app was refused, no command
\* of the app is let through.
C26_Cooldown ==
    \A r \in admitted, e \in admitted :
        (r.op = "refused" /\ e.op = "commandExecution")
        => ~(e.at > r.at /\ e.at < r.at + CooldownPeriod)

\* a step in which createSession(k) was called and returned
CreateStep == svcRet'.op = "create" /\ nreq' # nreq

\* C27: createSession with the key of a stored session returns that session
\* and leaves the stored sessions as they are; with a new key it stores a
\* session with that key, the area main and an empty history, and leaves the
\* other sessions as they are.
C27_CreateIdempotent ==
    [][CreateStep =>
          IF svcRet'.sessionId \in DOMAIN sessions
          THEN /\ sessions' = sessions
               /\ svcRet'.session = SessionObject(svcRet'.sessionId,
                                                  sessions[svcRet'.sessionId])
          ELSE /\ DOMAIN sessions' = DOMAIN sessions \cup {svcRet'.sessionId}
               /\ \A j \in DOMAIN sessions : sessions'[j] = sessions[j]
               /\ sessions'[svcRet'.sessionId].currentArea = "main"
               /\ sessions'[svcRet'.sessionId].commandHistory = <<>>
               /\ svcRet'.session = SessionObject(svcRet'.sessionId, NewSessionDoc)]_vars

\* createSession returned a stored session that had left the main menu and
\* had a history
C27_Witness ==
    /\ svcRet.op = "create"
    /\ svcRet.sessionId \in DOMAIN sessions
    /\ svcRet.session.currentArea # "main"
    /\ Len(svcRet.session.commandHistory) > 0
    /\ svcRet.session = SessionObject(svcRet.sessionId, sessions[svcRet.sessionId])

\* C28: the session of the reply to a command is the session after the
\* command: its currentArea is the persisted area and its commandHistory
\* is the persisted history, which ends with the command.
C28_SnapshotAfterCommand ==
    Answered
    => /\ reply.session.currentArea = PersistedArea(lastReq.sessionId)
       /\ reply.session.commandHistory = PersistedHistory(lastReq.sessionId)
       /\ Len(reply.session.commandHistory) > 0
       /\ reply.session.commandHistory[Len(reply.session.commandHistory)]
             = lastReq.command

\* two strings that differ in the case of their letters only
SameFolded(a, b) == ToUpperCase(a) = ToUpperCase(b)

\* a string without upper-case letters
IsLowerCased(s) ==
    \A i \in 1..Len(s) : IndexOfChar(UpperLetters, CharAt(s, i)) = 0

\* C29: after any sequence of register requests no two users have the same
\* lower-cased username or the same lower-cased email, usernames and emails
\* are stored lower-cased, and a register request that creates no user is
\* answered with an error.
C29_UsersUniqueLowerCased ==
    /\ [](/\ \A i, j \in 1..Len(users) :
                i # j => /\ ~SameFolded(users[i].username, users[j].username)
                         /\ ~SameFolded(users[i].email, users[j].email)
          /\ \A i \in 1..Len(users) :
                IsLowerCased(users[i].username) /\ IsLowerCased(users[i].email))
    /\ [][(authReply'.op = "register" /\ users' = users)
             => ~authReply'.reply.success]_vars

\* C30: register, login, logout and me each require a session key: a
\* request without one is answered with an error and creates or changes no
\* session and no user binding.
C30_SessionKeyRequired ==
    /\ []((authReply.op # "none" /\ Falsy(authReply.sessionId))
             => ~authReply.reply.success)
    /\ [][(authReply'.op # "none" /\ Falsy(authReply'.sessionId))
             => sessions' = sessions]_vars

\* the last command reached the code of a remote app
AppConsulted ==
    /\ Answered
    /\ reply.call.consulted
    /\ ~HasApp(loadInstalledApps, reply.call.app)

\* the request of the last command, had the app left its session argument alone
Untouched ==
    CommandPOST(lastWorld, lastReq.sessionId, lastReq.command,
                [lastEnv EXCEPT !.appWrite = "none"])

\* C31: whatever the code of an app assigns to the session object it is
\* handed, the persisted session and the session snapshot of the reply are
\* what they are when the app assigns nothing.
C31_SessionViewReadOnly ==
    AppConsulted
    => /\ sessions = Untouched.w.sessions
       /\ reply.session = Untouched.reply.session

\* C32: every execution of the code of a remote app, the load and every
\* later call of an entry point, ends within the configured timeout; an
\* execution that reaches the timeout ends as a rejection and leaves the
\* registry unchanged.
C32_RunsWithinTimeout ==
    /\ [](running.entry # "none" => elapsed <= TimeoutMs)
    /\ [][(running.entry # "none" /\ elapsed >= TimeoutMs /\ running'.entry = "none")
             => (running'.outcome = "rejected" /\ appRegistry' = appRegistry)]_vars

\* what the load pipeline makes of a URL when it is executed for the last
\* request, whatever the cache holds
FreshlyLoaded(githubUrl) ==
    loadAppFromGithub(lastWorld, githubUrl, [lastEnv EXCEPT !.cacheFresh = FALSE]).ret

\* C33: after a refresh the registry entry of every tracked URL whose
\* repository loads is the app the load pipeline yields when it is executed
\* again for that URL, whatever the age of the entry loaded before.
C33_RefreshReloadsTracked ==
    lastReq.op = "refresh"
    => \A i \in 1..Len(installedGithubApps) :
          FreshlyLoaded(installedGithubApps[i]).id # Null
          => FirstWithSource(appRegistry, installedGithubApps[i])
                = FreshlyLoaded(installedGithubApps[i])

\* C34: an update a DataService makes for app A leaves, in every session,
\* the data of every other app, currentArea, commandHistory, userId and
\* username as they were.
C34_UpdateOwnDataOnly ==
    [][svcRet'.op = "dataUpdate"
          => \A k \in DOMAIN sessions :
                /\ sessions'[k].currentArea = sessions[k].currentArea
                /\ sessions'[k].commandHistory = sessions[k].commandHistory
                /\ sessions'[k].userId = sessions[k].userId
                /\ sessions'[k].username = sessions[k].username
                /\ \A b \in DataApps \ {svcRet'.area} :
                      OwnData(sessions'[k].data, b) = OwnData(sessions[k].data, b)]_vars

\* C35: a URL is in the tracked list if and only if the registry holds an
\* app whose source is that URL, and after a successful uninstall of a URL
\* the registry holds no app whose source is that URL, and no app under the
\* id of that URL unless a URL of the same id is still tracked.
C35_TrackedIffRegistered ==
    /\ \A url \in TrackedUrls :
          SeqContains(installedGithubApps, url)
             <=> FirstWithSource(appRegistry, url).id # Null
    /\ (svcRet.op = "uninstall" /\ svcRet.ok)
          => /\ FirstWithSource(appRegistry, svcRet.area).id = Null
             /\ \/ ~HasApp(appRegistry, GithubAppId(parseGithubUrl(svcRet.area)))
                \/ \E i \in 1..Len(installedGithubApps) :
                      GithubAppId(parseGithubUrl(installedGithubApps[i]))
                         = GithubAppId(parseGithubUrl(svcRet.area))

\* the persisted session holds what a call of the kind wrote
Holds(kind) ==
    CASE kind = "area" -> sessions[SoloKey].currentArea = WrittenArea
      [] kind = "user" -> /\ sessions[SoloKey].userId = WrittenUser.userId
                          /\ sessions[SoloKey].username = WrittenUser.username
      [] OTHER -> SeqContains(sessions[SoloKey].commandHistory, WrittenCommand)

\* C36: writes of different fields of a session do not undo each other:
\* once a call of updateSession or addToHistory has written, the persisted
\* session holds what it wrote, however the calls interleave.
C36_NoLostFieldWrite ==
    \A r \in Requests : inflight[r].pc = "done" => Holds(inflight[r].command)

\* C37: the URL refresh rebuilds for a cached app parses back to the
\* repository info of the app and gives the same app id, and a refresh adds
\* no entry to the cache and no remote app to the registry beyond those of
\* the cached ids.
C37_RebuiltUrlRoundTrip ==
    /\ \A id \in DOMAIN githubApps :
          /\ parseGithubUrl(RefreshUrl(parseGithubUrl(githubApps[id].source)))
                = parseGithubUrl(githubApps[id].source)
          /\ GithubAppId(parseGithubUrl(RefreshUrl(parseGithubUrl(githubApps[id].source))))
                = id
    /\ lastReq.op = "refresh"
          => /\ DOMAIN githubApps = DOMAIN lastWorld.githubApps
             /\ \A i \in 1..Len(appRegistry) :
                   appRegistry[i].source # Undefined
                   => appRegistry[i].id \in DOMAIN lastWorld.githubApps

\* C38: after a command answered with success, the area of the reply is the
\* persisted currentArea of the session.
C38_ReplyAreaIsPersisted ==
    Answered => reply.area = PersistedArea(lastReq.sessionId)

\* C39: within one app, a call through one of the three storages (plain,
\* of a user, of a namespace) that finds a stored value finds one that was
\* written through the same storage, of the same user or namespace.
C39_ScopesDisjoint ==
    (svcRet.op = "scoped" /\ svcRet.found # NoScope) => svcRet.found = svcRet.scope

\* an init request for a session that existed before it
InitOfExisting ==
    /\ lastReq.op = "init"
    /\ lastReq.sessionId \in DOMAIN lastReq.sessionsBefore

\* C40: GET /terminal/init for an existing session leaves the persisted
\* currentArea as it was and reports it, so the area the client keeps is the
\* area the next command is dispatched in.
C40_InitReportsPersistedArea ==
    InitOfExisting
    => /\ PersistedArea(lastReq.sessionId) = lastReq.areaBefore
       /\ reply.currentArea = PersistedArea(lastReq.sessionId)
       /\ ClientSession(reply, lastReq.sessionId).currentArea
             = PersistedArea(lastReq.sessionId)

====
